---- MODULE Spec2Model ----
(***************************************************************************)
(* A model of the AI task testing platform: the agent service's            *)
(* tool-invocation loop and its run-and-persist route, the backend         *)
(* selection of the five services, the confidence computations and the     *)
(* structured-output extraction of the classification, correction,         *)
(* dialogue and RAG services.                                              *)
(*                                                                         *)
(* Text is a sequence of symbols.  A symbol is a string: one character, or *)
(* a piece of text the code never looks inside (a call marker, a JSON      *)
(* document, a fixed piece of a template).  len() of a text is the length  *)
(* of the sequence.  Numbers with a fractional part are exact fractions    *)
(* [n |-> numerator, d |-> denominator] with d > 0, in lowest terms.       *)
(***************************************************************************)
EXTENDS Integers, Sequences, FiniteSets, TLC

VARIABLES
    env,            \* which provider credentials the process environment holds
    db,             \* the persisted TestResult rows, in insertion order
    route,          \* the route that is being served
    pc,             \* where the request is
    test_case_id,   \* the test case the request names
    model_name,     \* the model name the request names
    tools,          \* the allow-list handed to the service
    strategy,       \* the strategy execute_task chose
    agent_response, \* the Planning response
    tool_calls,     \* _parse_tool_calls(agent_response)
    idx,            \* the tool call the loop is at
    actions_taken,  \* the ToolExecutionRecords appended so far
    output,         \* the TaskOutput the service returned
    error,          \* the message of the exception that ended the request
    http_status,    \* the status of the HTTP response
    provider_calls, \* the provider calls issued so far, each with its outcome
    tool_runs,      \* the tools executed so far, in order
    task_in,        \* the input of a single-call service operation
    document_store, \* the document_store of a RAGService, in insertion order
    document_ids,   \* the ids add_documents has returned on it, in order
    uploaded,       \* the documents upload-documents requests have sent
    returned        \* the TaskOutputs the calls of one operation returned, in order

vars == <<env, db, route, pc, test_case_id, model_name, tools, strategy,
          agent_response, tool_calls, idx, actions_taken, output, error,
          http_status, provider_calls, tool_runs, task_in,
          document_store, document_ids, uploaded, returned>>

\* the state of the document store and of what was sent to it, and the
\* outputs of repeated calls
storeVars == <<document_store, document_ids, uploaded, returned>>

(***************************************************************************)
(* Bounds of the model.                                                    *)
(***************************************************************************)
\* the number of segments a provider response is put together from
MaxSegments == 2
\* the number of pieces a model name is put together from
MaxNamePieces == 2
\* the length of the longest sequence of ToolExecutionRecords handed to
\* _calculate_confidence on its own
MaxRecords == 3

(***************************************************************************)
(* Exact fractions.                                                        *)
(***************************************************************************)
Abs(x) == IF x < 0 THEN -x ELSE x

RECURSIVE Gcd(_, _)
Gcd(a, b) == IF b = 0 THEN a ELSE Gcd(b, a % b)

\* the fraction n/d (d # 0) in lowest terms with a positive denominator
Frac(n, d) ==
    LET g == Gcd(Abs(n), Abs(d))
        s == IF d < 0 THEN -1 ELSE 1
    IN  [n |-> (s * n) \div g, d |-> (s * d) \div g]

FAdd(x, y) == Frac(x.n * y.d + y.n * x.d, x.d * y.d)
FSub(x, y) == Frac(x.n * y.d - y.n * x.d, x.d * y.d)
FMul(x, y) == Frac(x.n * y.n, x.d * y.d)
FLeq(x, y) == x.n * y.d <= y.n * x.d
FLt(x, y) == x.n * y.d < y.n * x.d
\* Python's min(x, y) and max(x, y): the first argument wins a tie
FMin(x, y) == IF FLt(y, x) THEN y ELSE x
FMax(x, y) == IF FLt(x, y) THEN y ELSE x
FAbs(x) == [n |-> Abs(x.n), d |-> x.d]
Zero == Frac(0, 1)
One == Frac(1, 1)
InUnitInterval(x) == FLeq(Zero, x) /\ FLeq(x, One)

Min(a, b) == IF a <= b THEN a ELSE b
Max(a, b) == IF a >= b THEN a ELSE b

(***************************************************************************)
(* Text.                                                                   *)
(***************************************************************************)
OpenTag == "[TOOL_CALL]"
CloseTag == "[/TOOL_CALL]"
Space == " "
Newline == "\n"
Colon == ":"
Whitespace == {Space, Newline}

\* text[:n]
Prefix(text, n) == SubSeq(text, 1, Min(n, Len(text)))

\* n copies of the character "x"
Pad(n) == [i \in 1..n |-> "x"]

\* a variant of StartsWith that finds the prefix anywhere in the name
StartsWith_Anywhere(s, prefix) ==
    \E i \in 0..(Len(s) - Len(prefix)) : SubSeq(s, i + 1, i + Len(prefix)) = prefix

\* str.startswith
StartsWith(s, prefix) ==
    /\ Len(s) >= Len(prefix)
    /\ SubSeq(s, 1, Len(prefix)) = prefix

\* str.strip(): the text without its leading and trailing white space
RECURSIVE Strip(_)
Strip(text) ==
    IF text = <<>> THEN text
    ELSE IF Head(text) \in Whitespace THEN Strip(Tail(text))
    ELSE IF text[Len(text)] \in Whitespace THEN Strip(SubSeq(text, 1, Len(text) - 1))
    ELSE text

\* sub in text
Contains(text, sub) ==
    \E i \in 0..(Len(text) - Len(sub)) : SubSeq(text, i + 1, i + Len(sub)) = sub

\* text.find(sub): the first place sub starts at, counted from 0, or -1
Find(text, sub) ==
    LET places == {i \in 0..(Len(text) - Len(sub)) : SubSeq(text, i + 1, i + Len(sub)) = sub}
    IN  IF places = {} THEN -1 ELSE CHOOSE i \in places : \A j \in places : i <= j

\* text.split() from a place on, with the word gathered so far
RECURSIVE SplitFrom(_, _)
SplitFrom(text, word) ==
    LET done == IF word = <<>> THEN <<>> ELSE <<word>>
    IN  IF text = <<>> THEN done
        ELSE IF Head(text) \in Whitespace THEN done \o SplitFrom(Tail(text), <<>>)
        ELSE SplitFrom(Tail(text), Append(word, Head(text)))

\* text.split(): the words between runs of white space
split(text) == SplitFrom(text, <<>>)

(***************************************************************************)
(* JSON.  A JSON document is one symbol of a text; JsonDocuments gives the *)
(* value json.loads returns for it.  A value is a record with a "type";    *)
(* an object carries its members in "fields".                              *)
(***************************************************************************)
JStr(s) == [type |-> "string", v |-> s]
JNum(n, d) == [type |-> "number", v |-> Frac(n, d)]
JObj(f) == [type |-> "object", fields |-> f]
JArr == [type |-> "array"]
PyNone == [type |-> "null"]
\* a Python value that is not JSON data: the dict of a mock call's arguments
PyDict(s) == [type |-> "dict", v |-> s]

\* the arguments of a call, as the tool's signature sees them
ArgsValid == [type |-> "object", fields |-> [bind |-> TRUE]]
ArgsInvalid == [type |-> "object", fields |-> [bind |-> FALSE]]

CallCalculator == "{\"tool\":\"calculator\",\"args\":{\"expression\":\"2+2\"}}"
CallCalculatorBadArgs == "{\"tool\":\"calculator\",\"args\":{\"x\":1}}"
CallWebSearch == "{\"tool\":\"web_search\",\"args\":{\"query\":\"tla\"}}"
CallBrowser == "{\"tool\":\"browser\",\"args\":{\"url\":\"u\"}}"
CallNoTool == "{\"args\":{\"query\":\"tla\"}}"
CallToolList == "{\"tool\":[\"calculator\"],\"args\":{}}"
CallNotObject == "[\"calculator\"]"
LabelPositive == "{\"predicted_label\":\"positive\",\"confidence\":0.9}"
LabelOnly == "{\"predicted_label\":\"negative\"}"
LabelArray == "{\"predicted_label\":[\"a\"],\"confidence\":0.9}"
ConfidenceFive == "{\"predicted_label\":\"positive\",\"confidence\":5}"
ConfidenceNegative == "{\"corrected_text\":\"b\",\"confidence\":-1}"
ConfidenceText == "{\"confidence\":\"high\"}"
CorrectedFull == "{\"corrected_text\":\"b\",\"corrections\":[],\"confidence\":0.9}"
EmptyObject == "{}"
JsonString == "\"positive\""
JsonNumber == "5"

JsonDocuments ==
    (CallCalculator :> JObj([tool |-> JStr("calculator"), args |-> ArgsValid])) @@
    (CallCalculatorBadArgs :> JObj([tool |-> JStr("calculator"), args |-> ArgsInvalid])) @@
    (CallWebSearch :> JObj([tool |-> JStr("web_search"), args |-> ArgsValid])) @@
    (CallBrowser :> JObj([tool |-> JStr("browser"), args |-> ArgsValid])) @@
    (CallNoTool :> JObj([args |-> ArgsValid])) @@
    (CallToolList :> JObj([tool |-> JArr, args |-> ArgsInvalid])) @@
    (CallNotObject :> JArr) @@
    (LabelPositive :> JObj([predicted_label |-> JStr("positive"), confidence |-> JNum(9, 10)])) @@
    (LabelOnly :> JObj([predicted_label |-> JStr("negative")])) @@
    (LabelArray :> JObj([predicted_label |-> JArr, confidence |-> JNum(9, 10)])) @@
    (ConfidenceFive :> JObj([predicted_label |-> JStr("positive"), confidence |-> JNum(5, 1)])) @@
    (ConfidenceNegative :> JObj([corrected_text |-> JStr("b"), confidence |-> JNum(-1, 1)])) @@
    (ConfidenceText :> JObj([confidence |-> JStr("high")])) @@
    (CorrectedFull :> JObj([corrected_text |-> JStr("b"), corrections |-> JArr, confidence |-> JNum(9, 10)])) @@
    (EmptyObject :> JObj(<<>>)) @@
    (JsonString :> JStr("positive")) @@
    (JsonNumber :> JNum(5, 1))

\* json.loads(text): the value, or JSONDecodeError when the text is not
\* exactly one JSON document with white space around it
json_loads(text) ==
    LET inner == Strip(text)
    IN  IF Len(inner) = 1 /\ inner[1] \in DOMAIN JsonDocuments
        THEN [ok |-> TRUE, value |-> JsonDocuments[inner[1]]]
        ELSE [ok |-> FALSE, value |-> PyNone]

\* value.get(key, default) on a dict
DictGet(value, key, default) ==
    IF key \in DOMAIN value.fields THEN value.fields[key] ELSE default

\* whether value.get raises AttributeError: only a dict has .get
HasGet(value) == value.type = "object"

\* whether `value in a_dict` and `{value: x}` can be evaluated: hashing a
\* list or a dict raises TypeError
Hashable(value) == value.type \notin {"array", "object", "dict"}

(***************************************************************************)
(* Backend selection.                                                      *)
(***************************************************************************)
GptPrefix == <<"g", "p", "t", "-">>
ClaudePrefix == <<"c", "l", "a", "u", "d", "e", "-">>
HuggingfacePrefix == <<"h", "u", "g", "g", "i", "n", "g", "f", "a", "c", "e", "/">>

\* the if / elif / else chain of execute_task, correct, generate_response
\* and generate_answer
SelectBackend(name) ==
    IF StartsWith(name, GptPrefix) THEN "openai"
    ELSE IF StartsWith(name, ClaudePrefix) THEN "anthropic"
    ELSE "mock"

\* the chain of classify, which has one more branch
SelectClassifier(name) ==
    IF StartsWith(name, GptPrefix) THEN "openai"
    ELSE IF StartsWith(name, ClaudePrefix) THEN "anthropic"
    ELSE IF StartsWith(name, HuggingfacePrefix) THEN "huggingface"
    ELSE "mock"

\* the strategy that runs: _classify_huggingface hands over to _classify_mock
RunsAs(branch) == IF branch = "huggingface" THEN "mock" ELSE branch

Services == {"classification", "correction", "dialogue", "rag", "agent"}

\* the strategy the service runs for a model name
select(service, name) ==
    IF service = "classification" THEN RunsAs(SelectClassifier(name))
    ELSE SelectBackend(name)

(***************************************************************************)
(* The agent service: parsing, the tool registry, confidence.              *)
(***************************************************************************)
available_tools == {"web_search", "calculator", "text_analyzer", "file_reader", "api_caller"}

\* the places of the leftmost match of \[TOOL_CALL\](.*?)\[/TOOL_CALL\] at or
\* after place p: <<i, j>> with the opening marker at i and the first closing
\* marker after it at j, or <<0, 0>> when nothing matches
FirstMatch(text, p) ==
    LET closes(i) == {j \in (i + 1)..Len(text) : text[j] = CloseTag}
        opens == {i \in p..Len(text) : text[i] = OpenTag /\ closes(i) # {}}
    IN  IF opens = {} THEN <<0, 0>>
        ELSE LET i == CHOOSE a \in opens : \A b \in opens : a <= b
                 j == CHOOSE a \in closes(i) : \A b \in closes(i) : a <= b
             IN  <<i, j>>

\* re.findall(pattern, response, re.DOTALL) from place p on: the texts between
\* the markers of the successive non-overlapping matches
RECURSIVE FindAll(_, _)
FindAll(text, p) ==
    LET m == FirstMatch(text, p)
    IN  IF m = <<0, 0>> THEN <<>>
        ELSE <<SubSeq(text, m[1] + 1, m[2] - 1)>> \o FindAll(text, m[2] + 1)

\* the loop of _parse_tool_calls: a match json.loads accepts is appended, one it
\* rejects with JSONDecodeError is passed over
RECURSIVE LoadMatches(_)
LoadMatches(matches) ==
    IF matches = <<>> THEN <<>>
    ELSE LET loaded == json_loads(Strip(Head(matches)))
         IN  (IF loaded.ok THEN <<loaded.value>> ELSE <<>>) \o LoadMatches(Tail(matches))

_parse_tool_calls(response) == LoadMatches(FindAll(response, 1))

\* an allow-list: None, or a list of names
NoTools == [given |-> FALSE, names |-> <<>>]
ToolList(names) == [given |-> TRUE, names |-> names]
\* Python's truth value of the allow-list: None and the empty list are false
Truthy(tl) == tl.given /\ tl.names # <<>>
InList(name, names) == \E i \in 1..Len(names) : names[i] = name

\* a variant of InRegistry that takes every name for a registered tool
InRegistry_AnyName(tool_name) == tool_name.type = "string"

\* tool_name in self.available_tools, for a hashable tool_name
InRegistry(tool_name) == tool_name.type = "string" /\ tool_name.v \in available_tools

\* a variant of Permitted that leaves out the allow-list
Permitted_RegistryOnly(tool_name, tl) == InRegistry(tool_name)

\* tool_name in self.available_tools and (not tools or tool_name in tools)
Permitted(tool_name, tl) ==
    /\ InRegistry(tool_name)
    /\ (~Truthy(tl) \/ InList(tool_name.v, tl.names))

\* whether self.available_tools[tool_name](**tool_args) returns: the arguments
\* are a dict that binds to the tool's signature with values it can use;
\* otherwise the call raises TypeError or AttributeError
ToolReturns(tool_args) ==
    /\ tool_args.type = "object"
    /\ "bind" \in DOMAIN tool_args.fields
    /\ tool_args.fields.bind

SuccessRecord(name, args) ==
    [tool |-> name, args |-> args, result |-> name \o " result", status |-> "success"]
FailedRecord(name, args) ==
    [tool |-> name, args |-> args, error |-> "TypeError", status |-> "failed"]

\* the record the loop body appends for a permitted call
RecordOf(tool_name, tool_args) ==
    IF ToolReturns(tool_args) THEN SuccessRecord(tool_name.v, tool_args)
    ELSE FailedRecord(tool_name.v, tool_args)

LengthThreshold == 100

CountSuccess(actions) == Cardinality({i \in 1..Len(actions) : actions[i].status = "success"})

\* a variant of _calculate_confidence that rewards a result of exactly
\* LengthThreshold characters too
_calculate_confidence_AtThreshold(result, actions) ==
    LET base == Frac(7, 10)
        adjusted ==
            IF actions # <<>> /\ Len(actions) > 0
            THEN FAdd(base, FMul(FSub(Frac(CountSuccess(actions), Len(actions)), Frac(1, 2)),
                                 Frac(3, 10)))
            ELSE base
        withLength ==
            IF Len(result) >= LengthThreshold THEN FAdd(adjusted, Frac(1, 10)) ELSE adjusted
    IN  FMin(Frac(95, 100), FMax(Frac(1, 10), withLength))

\* _calculate_confidence
_calculate_confidence(result, actions) ==
    LET base == Frac(7, 10)
        adjusted ==
            IF actions # <<>> /\ Len(actions) > 0
            THEN FAdd(base, FMul(FSub(Frac(CountSuccess(actions), Len(actions)), Frac(1, 2)),
                                 Frac(3, 10)))
            ELSE base
        withLength ==
            IF Len(result) > LengthThreshold THEN FAdd(adjusted, Frac(1, 10)) ELSE adjusted
    IN  FMin(Frac(95, 100), FMax(Frac(1, 10), withLength))

AgentOutput(result, actions, confidence) ==
    [type |-> "AgentOutput", result |-> result, actions_taken |-> actions,
     confidence |-> confidence]

(***************************************************************************)
(* Text similarity: difflib.SequenceMatcher(None, a, b).ratio().           *)
(* Places are counted from 0 as in difflib; a[i] of difflib is a[i + 1].   *)
(***************************************************************************)
\* str.lower() of one symbol
LowerSymbol(c) ==
    CASE c = "X" -> "x"
      [] c = "A" -> "a"
      [] c = "B" -> "b"
      [] c = "Positive" -> "positive"
      [] c = "Negative" -> "negative"
      [] c = "Corrected" -> "corrected"
      [] c = "Teh" -> "teh"
      [] c = OpenTag -> "[tool_call]"
      [] c = CloseTag -> "[/tool_call]"
      [] OTHER -> c

lower(text) == [i \in 1..Len(text) |-> LowerSymbol(text[i])]

\* autojunk: in a second sequence of at least this many elements ...
AutojunkLength == 200
\* ... an element that makes up more than one in this many of it, plus one, is
\* "popular" and starts no match
AutojunkShare == 100

Occurrences(e, b) == Cardinality({j \in 1..Len(b) : b[j] = e})

Popular(b) ==
    IF Len(b) >= AutojunkLength
    THEN {b[j] : j \in {k \in 1..Len(b) : Occurrences(b[k], b) > Len(b) \div AutojunkShare + 1}}
    ELSE {}

\* the length of the run of equal, not popular elements from a[i], b[j] on
RECURSIVE RunLength(_, _, _, _, _, _, _)
RunLength(a, b, popular, i, j, ahi, bhi) ==
    IF i < ahi /\ j < bhi /\ a[i + 1] = b[j + 1] /\ b[j + 1] \notin popular
    THEN 1 + RunLength(a, b, popular, i + 1, j + 1, ahi, bhi)
    ELSE 0

\* how far a block at a[i], b[j] extends to the left over equal elements
RECURSIVE ExtendLeft(_, _, _, _, _, _)
ExtendLeft(a, b, i, j, alo, blo) ==
    IF i > alo /\ j > blo /\ a[i] = b[j]
    THEN 1 + ExtendLeft(a, b, i - 1, j - 1, alo, blo)
    ELSE 0

\* how far a block ending before a[i], b[j] extends to the right
RECURSIVE ExtendRight(_, _, _, _, _, _)
ExtendRight(a, b, i, j, ahi, bhi) ==
    IF i < ahi /\ j < bhi /\ a[i + 1] = b[j + 1]
    THEN 1 + ExtendRight(a, b, i + 1, j + 1, ahi, bhi)
    ELSE 0

\* the length of the run from every pair of places where a run can start
RunTable(a, b, popular, alo, ahi, blo, bhi) ==
    [p \in {q \in (alo..(ahi - 1)) \X (blo..(bhi - 1)) :
                a[q[1] + 1] = b[q[2] + 1] /\ b[q[2] + 1] \notin popular}
        |-> RunLength(a, b, popular, p[1], p[2], ahi, bhi)]

\* the length of the longest run of the table
Longest(len) == CHOOSE k \in {len[p] : p \in DOMAIN len} : \A p \in DOMAIN len : len[p] <= k

\* among the runs of length k, the one earliest in a and then earliest in b
Earliest(len, k) ==
    CHOOSE p \in DOMAIN len :
        /\ len[p] = k
        /\ \A q \in DOMAIN len :
               len[q] = k => (p[1] < q[1] \/ (p[1] = q[1] /\ p[2] <= q[2]))

\* the block <<i, j, k>> with `left` more elements before it and `right` after
Extended(i, j, k, left, right) == <<i - left, j - left, k + left + right>>

\* the run of length k at `best`, extended over the equal elements on both sides
ExtendBlock(a, b, best, k, alo, ahi, blo, bhi) ==
    Extended(best[1], best[2], k,
             ExtendLeft(a, b, best[1], best[2], alo, blo),
             ExtendRight(a, b, best[1] + k, best[2] + k, ahi, bhi))

BestBlock(a, b, len, k, alo, ahi, blo, bhi) ==
    ExtendBlock(a, b, Earliest(len, k), k, alo, ahi, blo, bhi)

PickBlock(a, b, len, alo, ahi, blo, bhi) ==
    IF DOMAIN len = {} THEN ExtendBlock(a, b, <<alo, blo>>, 0, alo, ahi, blo, bhi)
    ELSE BestBlock(a, b, len, Longest(len), alo, ahi, blo, bhi)

\* find_longest_match(alo, ahi, blo, bhi): <<i, j, k>>, the longest block of
\* elements that are not popular, the one earliest in a and then earliest in b
\* among the longest (the empty block at alo, blo when there is none), extended
\* over the equal elements on both of its sides
find_longest_match(a, b, alo, ahi, blo, bhi) ==
    PickBlock(a, b, RunTable(a, b, Popular(b), alo, ahi, blo, bhi), alo, ahi, blo, bhi)

\* what get_matching_blocks puts on its queue after the block m = <<i, j, k>>
\* found in top = <<alo, ahi, blo, bhi>>
Remaining(top, m) ==
    (IF m[3] > 0 /\ top[1] < m[1] /\ top[3] < m[2]
     THEN <<(<<top[1], m[1], top[3], m[2]>>)>> ELSE <<>>) \o
    (IF m[3] > 0 /\ m[1] + m[3] < top[2] /\ m[2] + m[3] < top[4]
     THEN <<(<<m[1] + m[3], top[2], m[2] + m[3], top[4]>>)>> ELSE <<>>)

\* the queue and the blocks collected after one pass of the loop of
\* get_matching_blocks
AfterBlock(rest, top, m, blocks) ==
    <<rest \o Remaining(top, m), IF m[3] > 0 THEN blocks \cup {m} ELSE blocks>>

BlockStep(a, b, rest, top, blocks) ==
    AfterBlock(rest, top, find_longest_match(a, b, top[1], top[2], top[3], top[4]), blocks)

\* the loop of get_matching_blocks over its queue of <<alo, ahi, blo, bhi>>: the
\* matching blocks <<i, j, k>> it collects
RECURSIVE MatchingBlocks(_, _, _)
MatchingBlocks(a, b, state) ==
    IF state[1] = <<>> THEN state[2]
    ELSE MatchingBlocks(a, b, BlockStep(a, b, SubSeq(state[1], 1, Len(state[1]) - 1),
                                        state[1][Len(state[1])], state[2]))

get_matching_blocks(a, b) ==
    MatchingBlocks(a, b, <<(<<(<<0, Len(a), 0, Len(b)>>)>>), {}>>)

\* the number of elements in a set of blocks
RECURSIVE Matched(_)
Matched(blocks) ==
    IF blocks = {} THEN 0
    ELSE LET m == CHOOSE n \in blocks : TRUE
         IN  m[3] + Matched(blocks \ {m})

\* SequenceMatcher(None, a, b).ratio()
ratio(a, b) ==
    IF Len(a) + Len(b) = 0 THEN One
    ELSE Frac(2 * Matched(get_matching_blocks(a, b)), Len(a) + Len(b))

\* _calculate_similarity of the agent, dialogue and RAG services
_calculate_similarity(text1, text2) ==
    IF text1 = text2 THEN One ELSE ratio(lower(text1), lower(text2))

(***************************************************************************)
(* The agent scorer.                                                       *)
(***************************************************************************)
ToolNames(actions) == {actions[i].tool : i \in 1..Len(actions)}

\* AgentService.evaluate
evaluate_agent(predicted, expected) ==
    LET predicted_tools == ToolNames(predicted.actions_taken)
        expected_tools == ToolNames(expected.actions_taken)
    IN  [task_completion_score |-> _calculate_similarity(predicted.result, expected.result),
         tool_usage_score |->
             IF expected_tools # {}
             THEN Frac(Cardinality(predicted_tools \cap expected_tools),
                       Cardinality(expected_tools))
             ELSE Zero,
         action_count_diff |-> Abs(Len(predicted.actions_taken) - Len(expected.actions_taken)),
         confidence_diff |-> FAbs(FSub(predicted.confidence, expected.confidence)),
         predicted_actions |-> Len(predicted.actions_taken),
         expected_actions |-> Len(expected.actions_taken),
         predicted_confidence |-> predicted.confidence,
         expected_confidence |-> expected.confidence]

(***************************************************************************)
(* The stored test cases and the rows the routes persist.                  *)
(***************************************************************************)
\* dict.get(key, default) on a stored JSON column
Get(d, key, default) == IF key \in DOMAIN d THEN d[key] ELSE default

TestCases ==
    <<[task_type |-> "agent",
       input_data |-> [task_goal |-> <<"t">>],
       expected_output |-> [expected_result |-> <<"x">>]],
      [task_type |-> "agent",
       input_data |-> [task_goal |-> <<"t">>, available_tools |-> <<"calculator">>],
       expected_output |-> [expected_result |-> <<"x", "x">>]],
      [task_type |-> "agent",
       input_data |-> [task_goal |-> <<"t">>,
                       available_tools |-> <<"web_search", "browser", "calculator">>],
       expected_output |-> <<>>],
      [task_type |-> "agent",
       input_data |-> [task |-> <<"t">>, tools |-> <<"calculator">>],
       expected_output |-> [result |-> <<"x">>]],
      [task_type |-> "classification",
       input_data |-> [text |-> <<"t">>, labels |-> <<"positive", "negative">>],
       expected_output |-> [predicted_label |-> "positive", confidence |-> Frac(9, 10)]]>>

\* the ids a request may name: the stored ones and one that is not stored
RequestIds == 1..(Len(TestCases) + 1)

NoOutput == PyNone

FailedRow(id, name, message) ==
    [test_case_id |-> id, model_name |-> name, actual_output |-> <<>>,
     score |-> PyNone, metrics |-> PyNone, status |-> "failed",
     error_message |-> message]

CompletedRow(id, name, out, metrics, score) ==
    [test_case_id |-> id, model_name |-> name, actual_output |-> out,
     score |-> score, metrics |-> metrics, status |-> "completed",
     error_message |-> PyNone]

(***************************************************************************)
(* The classification service.  A label is a text; a JSON string is the    *)
(* text of one symbol.                                                     *)
(***************************************************************************)
\* what a strategy hands back when it raises instead of returning
Raises(message) == [type |-> "raised", error |-> message]

\* an optional list of labels: None, or a list of texts
NoLabels == [given |-> FALSE, names |-> <<>>]
LabelList(names) == [given |-> TRUE, names |-> names]

ClassificationOutput(label, confidence, probabilities) ==
    [type |-> "ClassificationOutput", predicted_label |-> label,
     confidence |-> confidence, probabilities |-> probabilities]

\* the words the sentiment default looks for; the two Chinese words are the
\* symbols "jiji" and "xiaoji"
PositiveWords == {<<"positive">>, <<"jiji">>}
NegativeWords == {<<"negative">>, <<"xiaoji">>}

\* a variant of _extract_label_from_text that looks for the labels as they
\* are written
_extract_label_from_text_CaseSensitive(text, labels) ==
    LET found == {i \in 1..Len(labels.names) : Contains(text, labels.names[i])}
    IN  IF Truthy(labels)
        THEN IF found # {}
             THEN labels.names[CHOOSE i \in found : \A j \in found : i <= j]
             ELSE labels.names[1]
        ELSE <<"neutral">>

\* _extract_label_from_text
_extract_label_from_text(text, labels) ==
    LET text_lower == lower(text)
        found == {i \in 1..Len(labels.names) : Contains(text_lower, lower(labels.names[i]))}
    IN  IF Truthy(labels)
        THEN IF found # {}
             THEN labels.names[CHOOSE i \in found : \A j \in found : i <= j]
             ELSE labels.names[1]
        ELSE IF \E w \in PositiveWords : Contains(text_lower, w) THEN <<"positive">>
        ELSE IF \E w \in NegativeWords : Contains(text_lower, w) THEN <<"negative">>
        ELSE <<"neutral">>

\* what building ClassificationOutput does with the values json.loads gave:
\* the dict literal hashes the label, the schema wants a str and a float
BuildClassification(predicted_label, confidence, labels) ==
    IF Truthy(labels) /\ ~Hashable(predicted_label)
    THEN Raises("TypeError: unhashable type")
    ELSE IF predicted_label.type # "string" \/ confidence.type # "number"
    THEN Raises("ValidationError")
    ELSE ClassificationOutput(<<predicted_label.v>>, confidence.v,
                              IF Truthy(labels)
                              THEN [l \in {<<predicted_label.v>>} |-> confidence.v]
                              ELSE PyNone)

\* _classify_openai and _classify_anthropic from the provider's response on:
\* strict parsing, or label extraction when json.loads raises JSONDecodeError
\* a variant of ParseClassification whose missing label is the neutral one
ParseClassification_NeutralDefault(result_text, labels) ==
    LET loaded == json_loads(result_text)
    IN  IF ~loaded.ok
        THEN LET label == _extract_label_from_text(result_text, labels)
             IN  ClassificationOutput(label, Frac(1, 2),
                                      IF Truthy(labels) THEN [l \in {label} |-> Frac(1, 2)]
                                      ELSE PyNone)
        ELSE IF ~HasGet(loaded.value) THEN Raises("AttributeError")
        ELSE BuildClassification(DictGet(loaded.value, "predicted_label", JStr("neutral")),
                                 DictGet(loaded.value, "confidence", JNum(1, 2)), labels)

ParseClassification(result_text, labels) ==
    LET loaded == json_loads(result_text)
    IN  IF ~loaded.ok
        THEN LET label == _extract_label_from_text(result_text, labels)
             IN  ClassificationOutput(label, Frac(1, 2),
                                      IF Truthy(labels) THEN [l \in {label} |-> Frac(1, 2)]
                                      ELSE PyNone)
        ELSE IF ~HasGet(loaded.value) THEN Raises("AttributeError")
        ELSE BuildClassification(DictGet(loaded.value, "predicted_label", JStr("unknown")),
                                 DictGet(loaded.value, "confidence", JNum(1, 2)), labels)

\* values random.uniform(0.6, 0.95) may return
ClassifierMockConfidences == {Frac(6, 10), Frac(8, 10), Frac(95, 100)}

SentimentLabels == <<(<<"positive">>), (<<"negative">>), (<<"neutral">>)>>

\* _classify_mock, with the label random.choice and the confidence
\* random.uniform drew
_classify_mock(labels, predicted_label, confidence) ==
    ClassificationOutput(
        predicted_label, confidence,
        IF Truthy(labels)
        THEN [l \in {labels.names[i] : i \in 1..Len(labels.names)} |->
                  IF l = predicted_label THEN confidence
                  ELSE FMul(FSub(One, confidence), Frac(1, Len(labels.names) - 1))]
        ELSE <<>>)

\* the outputs _classify_mock may return
ClassifierMockOutputs(labels) ==
    LET choices == IF Truthy(labels) THEN labels.names ELSE SentimentLabels
    IN  {_classify_mock(labels, choices[i], c) :
             i \in 1..Len(choices), c \in ClassifierMockConfidences}

(***************************************************************************)
(* The correction service.                                                 *)
(***************************************************************************)
\* a Python str that did not come out of a JSON document
PyStr(text) == [type |-> "string", text |-> text]
\* the text of a str value
TextOf(value) == IF "text" \in DOMAIN value THEN value.text ELSE <<value.v>>

CorrectionOutput(corrected_text, corrections, confidence) ==
    [type |-> "CorrectionOutput", corrected_text |-> corrected_text,
     corrections |-> corrections, confidence |-> confidence]

\* text.split('\n') from a place on, with the line gathered so far
RECURSIVE SplitLinesFrom(_, _)
SplitLinesFrom(text, line) ==
    IF text = <<>> THEN <<line>>
    ELSE IF Head(text) = Newline THEN <<line>> \o SplitLinesFrom(Tail(text), <<>>)
    ELSE SplitLinesFrom(Tail(text), Append(line, Head(text)))

\* the marker of a corrected line; the Chinese one is the symbol "jiucuohou"
MarksCorrection(line) ==
    Contains(line, <<"jiucuohou">>) \/ Contains(lower(line), <<"corrected">>)

\* line.split(':', 1)[1].strip()
AfterColon(line) == Strip(SubSeq(line, Find(line, <<Colon>>) + 2, Len(line)))

\* _extract_corrected_text: what follows the colon of the first marked line
\* that has one, or the original text
_extract_corrected_text(result_text, original_text) ==
    LET lines == SplitLinesFrom(result_text, <<>>)
        hits == {i \in 1..Len(lines) :
                     MarksCorrection(lines[i]) /\ Contains(lines[i], <<Colon>>)}
    IN  IF hits = {} THEN original_text
        ELSE AfterColon(lines[CHOOSE i \in hits : \A j \in hits : i <= j])

Deletion(original, word) ==
    [original |-> word, corrected |-> <<>>, type |-> "deletion",
     position |-> Find(original, word)]
Addition(word) ==
    [original |-> <<>>, corrected |-> word, type |-> "addition", position |-> -1]

\* the corrections made of the "-" lines for the words of a[i..j-1] and then
\* the "+" lines for the words of b[k..l-1] (places counted from 0)
GapCorrections(original, a, b, i, j, k, l) ==
    [n \in 1..(j - i) |-> Deletion(original, a[i + n])] \o
    [n \in 1..(l - k) |-> Addition(b[k + n])]

\* the corrections of the lines of the unified diff from a[i], b[j] on, gap by
\* gap between the matching blocks
RECURSIVE DiffCorrections(_, _, _, _, _, _)
DiffCorrections(original, a, b, blocks, i, j) ==
    IF blocks = {} THEN GapCorrections(original, a, b, i, Len(a), j, Len(b))
    ELSE LET m == CHOOSE n \in blocks : \A o \in blocks : n[1] <= o[1]
         IN  GapCorrections(original, a, b, i, m[1], j, m[2]) \o
             DiffCorrections(original, a, b, blocks \ {m}, m[1] + m[3], m[2] + m[3])

\* what the two header lines of a unified diff, "--- " and "+++ ", become
HeaderCorrections(original) ==
    <<Deletion(original, <<"-", "-">>), Addition(<<"+", "+">>)>>

WithHeader(original, changes) ==
    IF changes = <<>> THEN <<>> ELSE HeaderCorrections(original) \o changes

\* _generate_corrections: one correction per "-" and per "+" line of the
\* unified diff of the two word lists
_generate_corrections(original, corrected) ==
    WithHeader(original,
               DiffCorrections(original, split(original), split(corrected),
                               get_matching_blocks(split(original), split(corrected)),
                               0, 0))

\* what building CorrectionOutput does with the values json.loads gave: the
\* schema wants a str, a list and a float
BuildCorrection(corrected_text, corrections, confidence) ==
    IF corrected_text.type # "string" \/ corrections.type # "array"
       \/ confidence.type # "number"
    THEN Raises("ValidationError")
    ELSE CorrectionOutput(TextOf(corrected_text), <<>>, confidence.v)

\* _correct_openai and _correct_anthropic from the provider's response on
ParseCorrection(result_text, text) ==
    LET loaded == json_loads(result_text)
    IN  IF ~loaded.ok
        THEN CorrectionOutput(
                 _extract_corrected_text(result_text, text),
                 _generate_corrections(text, _extract_corrected_text(result_text, text)),
                 Frac(7, 10))
        ELSE IF ~HasGet(loaded.value) THEN Raises("AttributeError")
        ELSE BuildCorrection(DictGet(loaded.value, "corrected_text", PyStr(text)),
                             DictGet(loaded.value, "corrections", JArr),
                             DictGet(loaded.value, "confidence", JNum(8, 10)))

\* the misspellings _correct_mock knows, in the order of its dict
common_errors ==
    <<(<<"teh", "the">>), (<<"recieve", "receive">>), (<<"seperate", "separate">>),
      (<<"occured", "occurred">>)>>

\* str.replace of one word by another
Replace(text, wrong, correct) ==
    [i \in 1..Len(text) |-> IF text[i] = wrong THEN correct ELSE text[i]]

\* the loop of _correct_mock from entry n of common_errors on
RECURSIVE MockCorrections(_, _, _, _)
MockCorrections(text, corrected, corrections, n) ==
    IF n > Len(common_errors) THEN <<corrected, corrections>>
    ELSE IF Contains(lower(text), <<common_errors[n][1]>>)
    THEN MockCorrections(
             text, Replace(corrected, common_errors[n][1], common_errors[n][2]),
             Append(corrections,
                    [original |-> <<common_errors[n][1]>>,
                     corrected |-> <<common_errors[n][2]>>, type |-> "spelling",
                     position |-> Find(lower(text), <<common_errors[n][1]>>)]),
             n + 1)
    ELSE MockCorrections(text, corrected, corrections, n + 1)

\* _correct_mock, with the confidence random.uniform drew
_correct_mock(text, confidence) ==
    CorrectionOutput(MockCorrections(text, text, <<>>, 1)[1],
                     MockCorrections(text, text, <<>>, 1)[2], confidence)

(***************************************************************************)
(* The dialogue service.                                                   *)
(***************************************************************************)
DialogueOutput(response, confidence, context_used) ==
    [type |-> "DialogueOutput", response |-> response, confidence |-> confidence,
     context_used |-> context_used]

\* the earlier turns of a conversation: None, or a list
NoContext == [given |-> FALSE, names |-> <<>>]
ContextList(turns) == [given |-> TRUE, names |-> turns]

\* _generate_openai and _generate_anthropic of the dialogue service from the
\* provider's response on
ParseDialogue(response_text, context) ==
    DialogueOutput(response_text,
                   FMin(Frac(9, 10), FAdd(Frac(Len(response_text), 100), Frac(1, 2))),
                   Truthy(context))

\* values random.uniform(0.7, 0.95) may return
DialogueMockConfidences == {Frac(7, 10), Frac(8, 10), Frac(95, 100)}

\* the four templates of _generate_mock around message[:20]; a template's
\* fixed text before and after the message is one symbol each
mock_responses(message) ==
    {<<"reply " \o t \o ": '">> \o Prefix(message, 20) \o <<"...' " \o t>> :
         t \in {"1", "2", "3", "4"}}

\* the outputs _generate_mock of the dialogue service may return
DialogueMockOutputs(message, context) ==
    {DialogueOutput(r, c, context.given /\ Len(context.names) > 0) :
         r \in mock_responses(message), c \in DialogueMockConfidences}

(***************************************************************************)
(* The RAG service.                                                        *)
(***************************************************************************)
RAGOutput(answer, retrieved_documents, confidence) ==
    [type |-> "RAGOutput", answer |-> answer,
     retrieved_documents |-> retrieved_documents, confidence |-> confidence]

\* seq[:k] for any integer k
PySlice(seq, k) ==
    IF k >= 0 THEN SubSeq(seq, 1, Min(k, Len(seq)))
    ELSE SubSeq(seq, 1, Max(0, Len(seq) + k))

\* set(text.lower().split())
WordSet(text) == {split(lower(text))[i] : i \in 1..Len(split(lower(text)))}

\* the score _keyword_based_retrieval gives a document
KeywordScore(query_words, doc) ==
    IF query_words # {}
    THEN Frac(Cardinality(query_words \cap WordSet(doc)), Cardinality(query_words))
    ELSE Zero

\* the places 0..n-1 in the order of a stable sort by falling score
RECURSIVE SortedByScore(_, _)
SortedByScore(score, left) ==
    IF left = {} THEN <<>>
    ELSE LET first == CHOOSE i \in left :
                          \A j \in left : FLt(score[j], score[i])
                                          \/ (score[j] = score[i] /\ i <= j)
         IN  <<first>> \o SortedByScore(score, left \ {first})

\* the passages for the places of `order`, with their scores
Passages(documents, score, order) ==
    [n \in 1..Len(order) |->
         [content |-> documents[order[n] + 1], score |-> score[order[n]],
          index |-> order[n]]]

\* _keyword_based_retrieval
_keyword_based_retrieval(query, documents, top_k) ==
    LET score == [i \in 0..(Len(documents) - 1) |->
                      KeywordScore(WordSet(query), documents[i + 1])]
    IN  PySlice(Passages(documents, score, SortedByScore(score, DOMAIN score)), top_k)

\* whether `order` lists every place once, by falling score: what
\* np.argsort(similarities)[::-1] may return (the sort is not stable)
IsArgsortReversed(order, score) ==
    /\ Len(order) = Cardinality(DOMAIN score)
    /\ {order[n] : n \in 1..Len(order)} = DOMAIN score
    /\ \A n \in 1..(Len(order) - 1) : FLeq(score[order[n + 1]], score[order[n]])

\* the semantic branch of _retrieve_documents, for the similarities the
\* encoder gave and the order argsort put them in
SemanticRetrieval(documents, score, order, top_k) ==
    Passages(documents, score, PySlice(order, top_k))

\* the encoder of the service: absent, or what encoding and scoring did
NoEncoder == [state |-> "absent"]
FailingEncoder == [state |-> "raises"]
Encoder(score, order) == [state |-> "present", score |-> score, order |-> order]

\* a variant of _retrieve_documents that returns nothing when the encoder
\* raises, instead of falling back to the keywords
_retrieve_documents_NoFallback(query, documents, top_k, stored, encoder) ==
    LET used == IF Truthy(documents) THEN documents.names ELSE stored
    IN  IF used = <<>> THEN <<>>
        ELSE IF encoder.state = "present"
        THEN SemanticRetrieval(used, encoder.score, encoder.order, top_k)
        ELSE IF encoder.state = "raises" THEN <<>>
        ELSE _keyword_based_retrieval(query, used, top_k)

\* _retrieve_documents, with the documents of the store
_retrieve_documents(query, documents, top_k, stored, encoder) ==
    LET used == IF Truthy(documents) THEN documents.names ELSE stored
    IN  IF used = <<>> THEN <<>>
        ELSE IF encoder.state = "present"
        THEN SemanticRetrieval(used, encoder.score, encoder.order, top_k)
        ELSE _keyword_based_retrieval(query, used, top_k)

\* the sum of the scores of the passages from place n on
RECURSIVE ScoreSum(_, _)
ScoreSum(docs, n) ==
    IF n > Len(docs) THEN Zero ELSE FAdd(docs[n].score, ScoreSum(docs, n + 1))

\* the length at which an answer counts as full
FullAnswerLength == 200

\* _calculate_answer_confidence
_calculate_answer_confidence(answer, retrieved_docs) ==
    IF retrieved_docs = <<>> THEN Frac(3, 10)
    ELSE LET avg_retrieval_score == FMul(ScoreSum(retrieved_docs, 1),
                                         Frac(1, Len(retrieved_docs)))
             length_score == FMin(One, Frac(Len(answer), FullAnswerLength))
             confidence == FAdd(FMul(avg_retrieval_score, Frac(6, 10)),
                                FMul(length_score, Frac(4, 10)))
         IN  FMin(Frac(95, 100), FMax(Frac(1, 10), confidence))

\* _generate_openai and _generate_anthropic of the RAG service from the
\* provider's response on
ParseAnswer(answer, retrieved_docs) ==
    RAGOutput(answer, retrieved_docs, _calculate_answer_confidence(answer, retrieved_docs))

\* values random.uniform(0.6, 0.9) may return
RagMockConfidences == {Frac(6, 10), Frac(8, 10), Frac(9, 10)}

\* the outputs _generate_mock of the RAG service may return
RagMockOutputs(query, retrieved_docs) ==
    IF retrieved_docs # <<>>
    THEN {RAGOutput(<<"answer: '">> \o query \o <<"': ">>
                    \o Prefix(retrieved_docs[1].content, 200) \o <<"...">>,
                    retrieved_docs, c) : c \in RagMockConfidences}
    ELSE {RAGOutput(<<"nothing found: '">> \o query \o <<"'">>, retrieved_docs,
                    Frac(3, 10))}

(***************************************************************************)
(* What the providers may answer.                                          *)
(***************************************************************************)
Block(document) == <<OpenTag, document, CloseTag>>

BlockDocuments ==
    {CallCalculator, CallCalculatorBadArgs, CallWebSearch, CallBrowser, CallNoTool,
     CallToolList, CallNotObject}

Segments ==
    {Block(d) : d \in BlockDocuments} \cup
    {<<"x">>,
     <<OpenTag, Space, CallCalculator, Space, CloseTag>>,
     <<OpenTag, "x", CloseTag>>,
     <<OpenTag>>,
     <<CloseTag>>}

RECURSIVE SegmentTexts(_)
SegmentTexts(n) ==
    IF n = 0 THEN {<<>>}
    ELSE LET shorter == SegmentTexts(n - 1)
         IN  shorter \cup {t \o g : t \in shorter, g \in Segments}

\* the Planning responses
Responses ==
    SegmentTexts(MaxSegments) \cup {Pad(LengthThreshold), Pad(LengthThreshold + 1)}

\* the Synthesizing responses
FinalResponses == {<<"x", "x">>, Pad(LengthThreshold + 1), Block(CallWebSearch)}

\* values random.uniform(0.7, 0.95) may return
MockConfidences == {Frac(7, 10), Frac(8, 10), Frac(95, 100)}

\* the model names of the requests
Gpt4 == GptPrefix \o <<"4">>
Claude3 == ClaudePrefix \o <<"3">>
RequestModels == {Gpt4, Claude3, <<"G", "P", "T", "-", "4">>, <<"m", "o", "c", "k">>}

\* the allow-lists of the interactive route
InteractiveTools ==
    {NoTools, ToolList(<<>>), ToolList(<<"text_analyzer", "calculator", "web_search">>)}

(***************************************************************************)
(* The agent routes and the agent service, step by step.                   *)
(***************************************************************************)
\* a provider call that was issued and has not ended
Pending(stage) == [call |-> stage, outcome |-> "pending", response |-> PyNone]
\* the provider calls with the last one ended: it returned a response, or raised
Returned(calls, response) ==
    [calls EXCEPT ![Len(calls)] = [@ EXCEPT !.outcome = "returned", !.response = response]]
Raised(calls) == [calls EXCEPT ![Len(calls)].outcome = "raised"]

serviceVars == <<tools, strategy, agent_response, tool_calls, idx, actions_taken,
                 provider_calls, tool_runs>>

\* the route answers with an HTTPException raised before the try block
HttpError(code, detail) ==
    /\ http_status' = code
    /\ error' = detail
    /\ output' = NoOutput
    /\ pc' = "responded"
    /\ UNCHANGED db

\* a variant of Raise that answers with an output of the lowest confidence
\* instead of failing
Raise_Swallowed(rt, id, name, message) ==
    /\ db' = db
    /\ http_status' = 200
    /\ error' = ""
    /\ output' = AgentOutput(<<>>, <<>>, Frac(1, 10))
    /\ pc' = "responded"

\* the except branch of the route: _run_agent_test_internal persists a failed
\* row, interactive_agent_test only answers 500
Raise(rt, id, name, message) ==
    /\ db' = IF rt = "run_test" THEN Append(db, FailedRow(id, name, message)) ELSE db
    /\ http_status' = 500
    /\ error' = message
    /\ output' = NoOutput
    /\ pc' = "responded"

\* the service returned: _run_agent_test_internal scores the output against
\* the stored expectation and persists a completed row
Return(rt, id, name, out) ==
    /\ db' = IF rt = "run_test"
             THEN LET expected == AgentOutput(
                          Get(TestCases[id].expected_output, "expected_result", <<>>),
                          <<>>, Frac(8, 10))
                      metrics == evaluate_agent(out, expected)
                  IN  Append(db, CompletedRow(id, name, out, metrics,
                                              metrics.task_completion_score))
             ELSE db
    /\ http_status' = 200
    /\ error' = ""
    /\ output' = out
    /\ pc' = "responded"

\* _execute_mock, with the confidence random.uniform drew
_execute_mock(task, tl, confidence) ==
    LET used == IF Truthy(tl) THEN Prefix(tl.names, 2) ELSE <<>>
        known == SelectSeq(used, LAMBDA t : t \in available_tools)
        actions == [i \in 1..Len(known) |-> [tool |-> known[i], args |-> PyDict("mock"),
                                             result |-> known[i] \o " result",
                                             status |-> "success"]]
        result == <<"I analysed the task: '">> \o Prefix(task, 50) \o <<"...' with ">>
                  \o <<ToString(Len(actions))>> \o <<" tools. My advice is...">>
    IN  AgentOutput(result, actions, confidence)

\* execute_task up to the first provider call, or to its end
execute_task(rt, id, name, task, tl) ==
    LET chosen == SelectBackend(name)
        configured == IF chosen = "openai" THEN env.openai ELSE env.anthropic
    IN  /\ strategy' = chosen
        /\ tools' = tl
        /\ agent_response' = <<>>
        /\ tool_calls' = <<>>
        /\ idx' = 0
        /\ IF chosen = "mock"
           THEN \E c \in MockConfidences :
                    LET out == _execute_mock(task, tl, c)
                    IN  /\ actions_taken' = out.actions_taken
                        /\ tool_runs' = [i \in 1..Len(out.actions_taken) |->
                                             out.actions_taken[i].tool]
                        /\ provider_calls' = <<>>
                        /\ Return(rt, id, name, out)
           ELSE /\ actions_taken' = <<>>
                /\ tool_runs' = <<>>
                /\ IF configured
                   THEN /\ provider_calls' = <<Pending("planning")>>
                        /\ pc' = "planning"
                        /\ UNCHANGED <<db, http_status, error, output>>
                   ELSE /\ provider_calls' = <<>>
                        /\ Raise(rt, id, name,
                                 IF chosen = "openai" THEN "OpenAI API key not configured"
                                 ELSE "Anthropic API key not configured")

\* POST /run-test/ and POST /test-cases/{id}/run
_run_agent_test_internal(id, name) ==
    /\ pc = "idle"
    /\ route' = "run_test"
    /\ test_case_id' = id
    /\ model_name' = name
    /\ UNCHANGED <<env, storeVars, task_in>>
    /\ IF id \notin 1..Len(TestCases)
       THEN HttpError(404, "test case not found") /\ UNCHANGED serviceVars
       ELSE IF TestCases[id].task_type # "agent"
       THEN HttpError(400, "test case type mismatch") /\ UNCHANGED serviceVars
       ELSE IF "task_goal" \notin DOMAIN TestCases[id].input_data
       THEN Raise("run_test", id, name, "ValidationError: task") /\ UNCHANGED serviceVars
       ELSE execute_task("run_test", id, name, TestCases[id].input_data.task_goal,
                         ToolList(Get(TestCases[id].input_data, "available_tools", <<>>)))

\* POST /interactive-test/
interactive_agent_test(name, tl) ==
    /\ pc = "idle"
    /\ route' = "interactive"
    /\ test_case_id' = 0
    /\ model_name' = name
    /\ UNCHANGED <<env, storeVars, task_in>>
    /\ execute_task("interactive", 0, name, <<"t">>, tl)

ErrorPrefix == IF strategy = "openai" THEN "OpenAI Agent failed: " ELSE "Anthropic Agent failed: "

\* the except branch of _execute_openai and _execute_anthropic
Abort(cause) == Raise(route, test_case_id, model_name, ErrorPrefix \o cause)

\* the first provider call returns a response
PlanningReturns ==
    /\ pc = "planning"
    /\ \E response \in Responses :
           /\ agent_response' = response
           /\ tool_calls' = _parse_tool_calls(response)
           /\ provider_calls' = Returned(provider_calls, response)
    /\ idx' = 1
    /\ pc' = "executing"
    /\ UNCHANGED <<env, storeVars, db, route, test_case_id, model_name, tools, strategy,
                   actions_taken, output, error, http_status, tool_runs,
                   task_in>>

\* a provider call raises
ProviderFails ==
    /\ pc \in {"planning", "synthesizing"}
    /\ provider_calls' = Raised(provider_calls)
    /\ Abort("provider error")
    /\ UNCHANGED <<env, storeVars, route, test_case_id, model_name, tools, strategy,
                   agent_response, tool_calls, idx, actions_taken, tool_runs,
                   task_in>>

\* one pass of the loop over tool_calls
ExecuteToolCall ==
    /\ pc = "executing"
    /\ idx <= Len(tool_calls)
    /\ UNCHANGED <<env, storeVars, route, test_case_id, model_name, tools, strategy,
                   agent_response, tool_calls, provider_calls, task_in>>
    /\ LET tool_call == tool_calls[idx]
       IN  IF ~HasGet(tool_call)
           THEN Abort("AttributeError") /\ UNCHANGED <<idx, actions_taken, tool_runs>>
           ELSE LET tool_name == DictGet(tool_call, "tool", PyNone)
                    tool_args == DictGet(tool_call, "args", JObj(<<>>))
                IN  IF ~Hashable(tool_name)
                    THEN Abort("TypeError: unhashable type")
                         /\ UNCHANGED <<idx, actions_taken, tool_runs>>
                    ELSE /\ idx' = idx + 1
                         /\ IF Permitted(tool_name, tools)
                            THEN /\ tool_runs' = Append(tool_runs, tool_name.v)
                                 /\ actions_taken' =
                                        Append(actions_taken, RecordOf(tool_name, tool_args))
                            ELSE UNCHANGED <<actions_taken, tool_runs>>
                         /\ UNCHANGED <<db, output, error, http_status, pc>>

\* a variant of Synthesizes that asks again whether or not a tool ran
Synthesizes_Always(chosen, actions) == chosen = "openai"

\* whether the strategy asks the provider again after the loop
Synthesizes(chosen, actions) == chosen = "openai" /\ actions # <<>>

\* after the loop: the second provider call, or the return
FinishExecuting ==
    /\ pc = "executing"
    /\ idx > Len(tool_calls)
    /\ UNCHANGED <<env, storeVars, route, test_case_id, model_name, tools, strategy,
                   agent_response, tool_calls, idx, actions_taken, tool_runs,
                   task_in>>
    /\ IF Synthesizes(strategy, actions_taken)
       THEN /\ provider_calls' = Append(provider_calls, Pending("synthesis"))
            /\ pc' = "synthesizing"
            /\ UNCHANGED <<db, output, error, http_status>>
       ELSE /\ UNCHANGED provider_calls
            /\ Return(route, test_case_id, model_name,
                      AgentOutput(agent_response, actions_taken,
                                  _calculate_confidence(agent_response, actions_taken)))

\* the second provider call returns a response
SynthesisReturns ==
    /\ pc = "synthesizing"
    /\ \E response \in FinalResponses :
           /\ provider_calls' = Returned(provider_calls, response)
           /\ Return(route, test_case_id, model_name,
                     AgentOutput(response, actions_taken,
                                 _calculate_confidence(response, actions_taken)))
    /\ UNCHANGED <<env, storeVars, route, test_case_id, model_name, tools, strategy,
                   agent_response, tool_calls, idx, actions_taken, tool_runs,
                   task_in>>

(***************************************************************************)
(* The four single-call operations: classify, correct, generate_response   *)
(* and generate_answer, each up to its provider call and from the          *)
(* provider's answer on.                                                   *)
(***************************************************************************)
HuggingfaceBert == HuggingfacePrefix \o <<"x">>

ClassifyTexts == {<<"x">>}
ClassifyLabels == {NoLabels, LabelList(<<>>), LabelList(<<(<<"a">>), (<<"b">>)>>)}
ClassificationResponses ==
    {<<d>> : d \in {LabelPositive, LabelOnly, LabelArray, ConfidenceFive, ConfidenceText,
                    EmptyObject, JsonString, JsonNumber, CallNotObject}} \cup
    {<<>>, <<"x">>, <<"B">>, <<"a", "b">>, <<"Positive">>, <<"x", Space, "negative">>,
     <<Space, LabelPositive, Newline>>, <<LabelPositive, "x">>}

CorrectTexts == {<<"a", Space, "b">>, <<"Teh", Space, "teh">>}
CorrectionResponses ==
    {<<d>> : d \in {CorrectedFull, ConfidenceNegative, ConfidenceText, EmptyObject,
                    JsonString, CallNotObject}} \cup
    {<<"x">>, <<"Corrected", Colon, Space, "a", Space, "c">>, <<"corrected">>,
     <<"x", Newline, "corrected", Colon, "b", Space, "a", Newline, "x">>}

DialogueMessages == {<<"h", "i">>}
DialogueContexts == {NoContext, ContextList(<<>>), ContextList(<<"turn">>)}
\* 40 characters are the shortest response at the ceiling of the confidence
DialogueResponses == {<<>>, <<"x">>, Pad(39), Pad(40)}

RagQueries == {<<"a", Space, "b">>, <<>>}
RagDocuments ==
    {NoLabels, LabelList(<<(<<"a">>), (<<"B", Space, "a">>), (<<"x">>)>>)}
RagStores == {<<>>, <<(<<"b">>)>>}
RagTopK == {1, 5}
\* similarities an encoder may give: any real, below 0 and above 1 too
Similarities == {Frac(-1, 1), Frac(1, 2), Frac(2, 1)}
RagResponses == {<<"x">>, Pad(FullAnswerLength)}

\* what encoding and scoring may do for n documents: no encoder, an encoder
\* that raises, or similarities in any order argsort may put them in
Encoders(n) ==
    {NoEncoder, FailingEncoder} \cup
    UNION {{Encoder(score, order) :
                order \in {o \in [1..n -> 0..(n - 1)] : IsArgsortReversed(o, score)}} :
           score \in [0..(n - 1) -> Similarities]}

FailurePrefix(service, chosen) ==
    (IF chosen = "openai" THEN "OpenAI " ELSE "Anthropic ") \o service \o " failed: "

\* the operation ends: it returns the output, or raises
ServiceEnd(result, prefix) ==
    /\ pc' = "responded"
    /\ output' = IF result.type = "raised" THEN NoOutput ELSE result
    /\ error' = IF result.type = "raised" THEN prefix \o result.error ELSE ""

\* what the four operations share from their first line on: the strategy is
\* chosen; the fallback returns at once; a provider strategy raises
\* ValueError without its credential and calls the provider with it
Begin(service, name, input, mockOutputs) ==
    LET chosen == select(service, name)
        configured == IF chosen = "openai" THEN env.openai ELSE env.anthropic
    IN  /\ model_name' = name
        /\ strategy' = chosen
        /\ task_in' = input
        /\ UNCHANGED <<env, storeVars, db, route, test_case_id, tools, agent_response, tool_calls,
                       idx, actions_taken, http_status, tool_runs>>
        /\ IF chosen = "mock"
           THEN /\ provider_calls' = <<>>
                /\ \E out \in mockOutputs : ServiceEnd(out, "")
           ELSE IF ~configured
           THEN /\ provider_calls' = <<>>
                /\ ServiceEnd(Raises(IF chosen = "openai"
                                     THEN "OpenAI API key not configured"
                                     ELSE "Anthropic API key not configured"), "")
           ELSE /\ provider_calls' = <<Pending(service)>>
                /\ pc' = "awaiting"
                /\ UNCHANGED <<output, error>>

\* ClassificationService.classify
classify(text, name, labels) ==
    /\ pc = "idle"
    /\ Begin("classification", name,
             [service |-> "classification", text |-> text, labels |-> labels],
             ClassifierMockOutputs(labels))

\* CorrectionService.correct
correct(text, name) ==
    /\ pc = "idle"
    /\ Begin("correction", name, [service |-> "correction", text |-> text],
             {_correct_mock(text, c) : c \in MockConfidences})

\* DialogueService.generate_response
generate_response(message, name, context) ==
    /\ pc = "idle"
    /\ Begin("dialogue", name,
             [service |-> "dialogue", message |-> message, context |-> context],
             DialogueMockOutputs(message, context))

\* the passages generate_answer retrieves before it chooses the strategy
Retrieved(query, documents, top_k, stored, encoder) ==
    [service |-> "rag", query |-> query,
     retrieved_docs |-> _retrieve_documents(query, documents, top_k, stored, encoder)]

\* RAGService.generate_answer
generate_answer(query, name, documents, top_k, stored, encoder) ==
    /\ pc = "idle"
    /\ Begin("rag", name, Retrieved(query, documents, top_k, stored, encoder),
             RagMockOutputs(query, Retrieved(query, documents, top_k, stored,
                                             encoder).retrieved_docs))

\* what the strategy makes of the provider's response
ParseResponse(response, input) ==
    CASE input.service = "classification" -> ParseClassification(response, input.labels)
      [] input.service = "correction" -> ParseCorrection(response, input.text)
      [] input.service = "dialogue" -> ParseDialogue(response, input.context)
      [] input.service = "rag" -> ParseAnswer(response, input.retrieved_docs)

\* the responses a provider may give to the operation that is waiting
TaskResponses(service) ==
    CASE service = "classification" -> ClassificationResponses
      [] service = "correction" -> CorrectionResponses
      [] service = "dialogue" -> DialogueResponses
      [] service = "rag" -> RagResponses

\* the provider call of a single-call operation returns a response
TaskProviderReturns ==
    /\ pc = "awaiting"
    /\ \E response \in TaskResponses(task_in.service) :
           /\ provider_calls' = Returned(provider_calls, response)
           /\ ServiceEnd(ParseResponse(response, task_in),
                         FailurePrefix(task_in.service, strategy))
    /\ UNCHANGED <<env, storeVars, db, route, test_case_id, model_name, tools, strategy,
                   agent_response, tool_calls, idx, actions_taken, http_status,
                   tool_runs, task_in>>

\* the provider call of a single-call operation raises
TaskProviderFails ==
    /\ pc = "awaiting"
    /\ provider_calls' = Raised(provider_calls)
    /\ ServiceEnd(Raises("provider error"), FailurePrefix(task_in.service, strategy))
    /\ UNCHANGED <<env, storeVars, db, route, test_case_id, model_name, tools, strategy,
                   agent_response, tool_calls, idx, actions_taken, http_status,
                   tool_runs, task_in>>

(***************************************************************************)
(* The specification of one request.                                       *)
(***************************************************************************)
Init ==
    /\ env \in [openai : BOOLEAN, anthropic : BOOLEAN]
    /\ db = <<>>
    /\ document_store = <<>>
    /\ document_ids = <<>>
    /\ uploaded = <<>>
    /\ returned = <<>>
    /\ route = "none"
    /\ pc = "idle"
    /\ test_case_id = 0
    /\ model_name = <<>>
    /\ tools = NoTools
    /\ strategy = "none"
    /\ agent_response = <<>>
    /\ tool_calls = <<>>
    /\ idx = 0
    /\ actions_taken = <<>>
    /\ output = NoOutput
    /\ error = ""
    /\ http_status = 0
    /\ provider_calls = <<>>
    /\ tool_runs = <<>>
    /\ task_in = PyNone

Next ==
    \/ \E id \in RequestIds, name \in RequestModels : _run_agent_test_internal(id, name)
    \/ \E name \in RequestModels, tl \in InteractiveTools : interactive_agent_test(name, tl)
    \/ PlanningReturns
    \/ ProviderFails
    \/ ExecuteToolCall
    \/ FinishExecuting
    \/ SynthesisReturns
    \/ \E text \in ClassifyTexts, name \in RequestModels \cup {HuggingfaceBert},
          labels \in ClassifyLabels : classify(text, name, labels)
    \/ \E text \in CorrectTexts, name \in RequestModels : correct(text, name)
    \/ \E message \in DialogueMessages, name \in RequestModels,
          context \in DialogueContexts : generate_response(message, name, context)
    \/ \E query \in RagQueries, name \in RequestModels, documents \in RagDocuments,
          top_k \in RagTopK, stored \in RagStores :
          \E encoder \in Encoders(Len(IF Truthy(documents) THEN documents.names
                                       ELSE stored)) :
              generate_answer(query, name, documents, top_k, stored, encoder)
    \/ TaskProviderReturns
    \/ TaskProviderFails

Spec == Init /\ [][Next]_vars

(***************************************************************************)
(* Backend selection on its own: one model name, one service.              *)
(***************************************************************************)
NamePieces ==
    {GptPrefix, ClaudePrefix, HuggingfacePrefix,
     <<"G", "P", "T", "-">>, <<"C", "l", "a", "u", "d", "e", "-">>,
     <<"g", "p", "t">>, <<"c", "l", "a", "u", "d", "e">>, <<"x">>, <<"4">>, <<" ">>}

\* the names put together from at most n pieces; the empty name is one
RECURSIVE NamesOf(_)
NamesOf(n) ==
    IF n = 0 THEN {<<>>}
    ELSE LET shorter == NamesOf(n - 1)
         IN  shorter \cup {t \o g : t \in shorter, g \in NamePieces}

ModelNames == NamesOf(MaxNamePieces)

\* the state before a request, with nothing chosen yet
Unused ==
    /\ env = [openai |-> TRUE, anthropic |-> TRUE]
    /\ db = <<>>
    /\ document_store = <<>>
    /\ document_ids = <<>>
    /\ uploaded = <<>>
    /\ returned = <<>>
    /\ route = "none"
    /\ pc = "idle"
    /\ test_case_id = 0
    /\ tools = NoTools
    /\ strategy = "none"
    /\ tool_calls = <<>>
    /\ idx = 0
    /\ output = NoOutput
    /\ error = ""
    /\ http_status = 0
    /\ provider_calls = <<>>
    /\ tool_runs = <<>>
    /\ task_in = PyNone

SelectionInit ==
    /\ Unused
    /\ model_name \in ModelNames
    /\ agent_response = <<>>
    /\ actions_taken = <<>>

\* the if / elif / else chain at the head of the service's operation
SelectFor(service) ==
    /\ pc = "idle"
    /\ strategy' = select(service, model_name)
    /\ task_in' = [service |-> service]
    /\ pc' = "selected"
    /\ UNCHANGED <<env, storeVars, db, route, test_case_id, model_name, tools, agent_response,
                   tool_calls, idx, actions_taken, output, error, http_status,
                   provider_calls, tool_runs>>

SelectionNext == \E service \in Services : SelectFor(service)

SelectionSpec == SelectionInit /\ [][SelectionNext]_vars

(***************************************************************************)
(* _calculate_confidence on its own: one result text, one sequence of      *)
(* ToolExecutionRecords.                                                   *)
(***************************************************************************)
ResultLengths ==
    {0, 1, LengthThreshold - 1, LengthThreshold, LengthThreshold + 1, 2 * LengthThreshold}

RecordKinds ==
    {SuccessRecord("calculator", ArgsValid), FailedRecord("calculator", ArgsInvalid)}

\* the sequences of at most n records
RECURSIVE RecordSequences(_)
RecordSequences(n) ==
    IF n = 0 THEN {<<>>}
    ELSE LET shorter == RecordSequences(n - 1)
         IN  shorter \cup {Append(t, r) : t \in shorter, r \in RecordKinds}

ConfidenceInit ==
    /\ Unused
    /\ model_name = Gpt4
    /\ agent_response \in {Pad(n) : n \in ResultLengths}
    /\ actions_taken \in RecordSequences(MaxRecords)

\* the tail of _execute_openai and _execute_anthropic: the confidence of the
\* final result and the records, and the AgentOutput made of them
CalculateConfidence ==
    /\ pc = "idle"
    /\ output' = AgentOutput(agent_response, actions_taken,
                             _calculate_confidence(agent_response, actions_taken))
    /\ pc' = "calculated"
    /\ UNCHANGED <<env, storeVars, db, route, test_case_id, model_name, tools, strategy,
                   agent_response, tool_calls, idx, actions_taken, error,
                   http_status, provider_calls, tool_runs, task_in>>

ConfidenceNext == CalculateConfidence

ConfidenceSpec == ConfidenceInit /\ [][ConfidenceNext]_vars

(***************************************************************************)
(* Properties of the agent loop, checked under Spec.                       *)
(***************************************************************************)
Provider == {"openai", "anthropic"}

\* the request is an agent invocation
AgentInvocation == route \in {"run_test", "interactive"}

\* the agent service returned an output
AgentReturned == output.type = "AgentOutput"

\* the Planning call has returned its response
PlanningReturned ==
    /\ provider_calls # <<>>
    /\ provider_calls[1].call = "planning"
    /\ provider_calls[1].outcome = "returned"

\* the text holds an opening marker, a later closing marker and, between the
\* two, text that json.loads accepts
ContainsWellFormedBlock(text) ==
    \E i \in 1..Len(text), j \in 1..Len(text) :
        /\ i < j
        /\ text[i] = OpenTag
        /\ text[j] = CloseTag
        /\ json_loads(SubSeq(text, i + 1, j - 1)).ok

\* the tool field of a parsed call
ToolOf(call) == DictGet(call, "tool", PyNone)

\* the parsed call is an object that names a tool of the registry
NamesRegistryTool(call) ==
    /\ call.type = "object"
    /\ ToolOf(call).type = "string"
    /\ ToolOf(call).v \in available_tools

\* the parsed call is an object that names a tool the registry does not have
NamesUnknownTool(call) ==
    /\ call.type = "object"
    /\ ToolOf(call).type = "string"
    /\ ToolOf(call).v \notin available_tools

\* the calls of a Planning response that are in the registry and allowed
PermittedCalls(response, tl) ==
    SelectSeq(_parse_tool_calls(response),
              LAMBDA call : NamesRegistryTool(call)
                            /\ (tl.names = <<>> \/ InList(ToolOf(call).v, tl.names)))

\* C1: under the provider-backed strategies, after a Planning response with
\* no well-formed call block no tool is executed, no record is appended, the
\* Planning call stays the only provider call, and the invocation returns
\* the Planning response as its result with no actions.
C1_NoBlockSkipsSynthesis ==
    (AgentInvocation /\ strategy \in Provider /\ PlanningReturned
     /\ ~ContainsWellFormedBlock(agent_response))
    => /\ tool_runs = <<>>
       /\ actions_taken = <<>>
       /\ Len(provider_calls) = 1
       /\ pc \in {"executing", "responded"}
       /\ (pc = "responded" =>
              /\ AgentReturned
              /\ output.result = agent_response
              /\ output.actions_taken = <<>>
              /\ http_status = 200)

\* a response with a call marker and no well-formed block was returned as
\* the result
C1_Witness ==
    /\ AgentInvocation
    /\ strategy \in Provider
    /\ PlanningReturned
    /\ pc = "responded"
    /\ ~ContainsWellFormedBlock(agent_response)
    /\ \E i \in 1..Len(agent_response) : agent_response[i] = OpenTag
    /\ AgentReturned
    /\ output.result = agent_response

\* C2: once the loop over a Planning response with N permitted calls has
\* ended, there are exactly N records, one per permitted call in order:
\* "failed" with the error where the tool raised, "success" elsewhere.
C2_EveryPermittedCallRecorded ==
    (AgentInvocation /\ strategy \in Provider /\ PlanningReturned
     /\ pc \in {"synthesizing", "responded"})
    => LET calls == PermittedCalls(agent_response, tools)
       IN  /\ Len(actions_taken) = Len(calls)
           /\ \A i \in 1..Len(calls) :
                  /\ i <= Len(actions_taken)
                  /\ actions_taken[i].tool = ToolOf(calls[i]).v
                  /\ IF ToolReturns(DictGet(calls[i], "args", JObj(<<>>)))
                     THEN actions_taken[i].status = "success"
                     ELSE /\ actions_taken[i].status = "failed"
                          /\ "error" \in DOMAIN actions_taken[i]

\* C3: under both provider strategies, an invocation that returns an output
\* with at least one record has issued exactly one second provider call,
\* and its result is the response of that call.
C3_SecondCallAfterTools ==
    (AgentInvocation /\ strategy \in Provider /\ pc = "responded" /\ AgentReturned
     /\ output.actions_taken # <<>>)
    => /\ Len(provider_calls) = 2
       /\ provider_calls[2].call = "synthesis"
       /\ output.result = provider_calls[2].response

\* the credential the chosen provider strategy needs is not configured
CredentialAbsent ==
    /\ strategy \in Provider
    /\ ~(IF strategy = "openai" THEN env.openai ELSE env.anthropic)

\* a provider call raised
ProviderCallFailed ==
    \E i \in 1..Len(provider_calls) : provider_calls[i].outcome = "raised"

\* C4: when the credential is absent or a provider call failed, the
\* invocation has ended with an error and without an output, and the run
\* route has persisted exactly one row: status "failed", empty
\* actual_output, the error message.
C4_FailureIsRaisedAndPersisted ==
    (AgentInvocation /\ (CredentialAbsent \/ ProviderCallFailed))
    => /\ pc = "responded"
       /\ output = NoOutput
       /\ error # ""
       /\ http_status = 500
       /\ (route = "run_test" =>
              /\ Len(db) = 1
              /\ db[1].status = "failed"
              /\ db[1].actual_output = <<>>
              /\ db[1].error_message = error
              /\ db[1].test_case_id = test_case_id)

\* the Synthesizing call failed after tools had run, and the failed row is
\* persisted
C4_Witness ==
    /\ Len(provider_calls) = 2
    /\ provider_calls[2].outcome = "raised"
    /\ tool_runs # <<>>
    /\ route = "run_test"
    /\ Len(db) = 1
    /\ db[1].status = "failed"
    /\ output = NoOutput

\* every tool that ran and every record is named on the allow-list
WithinAllowList ==
    /\ \A i \in 1..Len(tool_runs) : InList(tool_runs[i], tools.names)
    /\ \A i \in 1..Len(actions_taken) : InList(actions_taken[i].tool, tools.names)
    /\ (AgentReturned =>
           \A i \in 1..Len(output.actions_taken) :
               InList(output.actions_taken[i].tool, tools.names))

\* C7 as stated: whatever list the caller supplies, the empty one included,
\* nothing outside it runs or is recorded.
C7_AnySuppliedList == tools.given => WithinAllowList

\* C7: for a non-empty allow-list, no tool outside it is executed and no
\* record names a tool outside it.
C7_NonEmptyAllowList == (tools.given /\ tools.names # <<>>) => WithinAllowList

\* a call to a registry tool that is not on the non-empty allow-list was
\* passed over, and the invocation returned
C7_Witness ==
    /\ strategy \in Provider
    /\ tools.given
    /\ tools.names # <<>>
    /\ pc = "responded"
    /\ AgentReturned
    /\ tool_runs # <<>>
    /\ \E i \in 1..Len(tool_calls) :
           /\ NamesRegistryTool(tool_calls[i])
           /\ ~InList(ToolOf(tool_calls[i]).v, tools.names)

\* every record names a tool of the registry
RecordsNameRegistryTools ==
    /\ \A i \in 1..Len(actions_taken) : actions_taken[i].tool \in available_tools
    /\ \A i \in 1..Len(tool_runs) : tool_runs[i] \in available_tools
    /\ (AgentReturned =>
           \A i \in 1..Len(output.actions_taken) :
               output.actions_taken[i].tool \in available_tools)

\* the step the loop takes at a call that names an unknown tool: no record,
\* no execution, on to the next call
UnknownCallSkipped ==
    (pc = "executing" /\ idx \in 1..Len(tool_calls) /\ NamesUnknownTool(tool_calls[idx]))
    => /\ actions_taken' = actions_taken
       /\ tool_runs' = tool_runs
       /\ idx' = idx + 1
       /\ pc' = "executing"

\* C8: in every state, under all three strategies, every record names a
\* registry tool; and a call naming an unknown tool adds no record and hands
\* the loop on to the call after it.
C8_UnknownToolDropped == []RecordsNameRegistryTools /\ [][UnknownCallSkipped]_vars

\* a call naming an unknown tool was followed by a call that was executed
C8_Witness ==
    /\ pc = "responded"
    /\ AgentReturned
    /\ \E i \in 1..Len(tool_calls), j \in 1..Len(tool_calls) :
           /\ i < j
           /\ NamesUnknownTool(tool_calls[i])
           /\ NamesRegistryTool(tool_calls[j])
           /\ \E k \in 1..Len(output.actions_taken) :
                  output.actions_taken[k].tool = ToolOf(tool_calls[j]).v

(***************************************************************************)
(* Properties of backend selection, checked under SelectionSpec.           *)
(***************************************************************************)
\* the name begins with the four characters g, p, t, -
BeginsWithGpt(name) ==
    /\ Len(name) >= 4
    /\ name[1] = "g" /\ name[2] = "p" /\ name[3] = "t" /\ name[4] = "-"

\* the name begins with the seven characters c, l, a, u, d, e, -
BeginsWithClaude(name) ==
    /\ Len(name) >= 7
    /\ name[1] = "c" /\ name[2] = "l" /\ name[3] = "a" /\ name[4] = "u"
    /\ name[5] = "d" /\ name[6] = "e" /\ name[7] = "-"

\* C6: in every service and for every model name, the strategy chosen is
\* the primary provider exactly when the name begins with "gpt-", the
\* secondary provider exactly when it begins with "claude-", and the
\* fallback for every other name.
C6_SelectionByExactPrefix ==
    pc = "selected"
    => /\ strategy \in {"openai", "anthropic", "mock"}
       /\ (strategy = "openai" <=> BeginsWithGpt(model_name))
       /\ (strategy = "anthropic" <=> BeginsWithClaude(model_name))
       /\ (strategy = "mock" <=>
               ~BeginsWithGpt(model_name) /\ ~BeginsWithClaude(model_name))

\* a name that holds "gpt-" later in the string went to the fallback
C6_Witness ==
    /\ pc = "selected"
    /\ strategy = "mock"
    /\ \E i \in 2..Len(model_name) :
           /\ i + 3 <= Len(model_name)
           /\ SubSeq(model_name, i, i + 3) = <<"g", "p", "t", "-">>

EveryProviderCallReturned ==
    /\ provider_calls # <<>>
    /\ \A i \in 1..Len(provider_calls) : provider_calls[i].outcome = "returned"

\* C5: for every task kind, an invocation whose provider strategy had its
\* credential and whose provider calls all returned a response ends with a
\* TaskOutput, whatever the response texts were.
C5_EveryResponseAbsorbed ==
    (pc = "responded" /\ strategy \in Provider /\ EveryProviderCallReturned)
    => output # NoOutput

\* C10: every TaskOutput any of the five operations returns, under any
\* strategy and for any provider response, carries a confidence in [0, 1].
C10_ConfidenceInUnitInterval ==
    output # NoOutput => InUnitInterval(output.confidence)

(***************************************************************************)
(* _retrieve_documents on its own: one query, one list of documents, one   *)
(* top_k, the documents of the store and what the encoder does.            *)
(***************************************************************************)
MaxDocuments == 3

RetrievalQueries == {<<"A", Space, "b">>, <<>>}
RetrievalTexts == {<<"a">>, <<"B", Space, "a">>, <<"x">>}

\* the lists of at most n documents
RECURSIVE DocumentLists(_)
DocumentLists(n) ==
    IF n = 0 THEN {<<>>}
    ELSE LET shorter == DocumentLists(n - 1)
         IN  shorter \cup {Append(l, d) : l \in shorter, d \in RetrievalTexts}

\* top_k is any int: below zero, zero, and beyond the number of documents
RetrievalTopK == (-2)..(MaxDocuments + 1)

\* the documents _retrieve_documents ranks: the given ones, or those of the
\* store when none are given
UsedDocuments(documents, stored) ==
    IF Truthy(documents) THEN documents.names ELSE stored

RetrievalInit ==
    /\ env = [openai |-> TRUE, anthropic |-> TRUE]
    /\ db = <<>>
    /\ document_store = <<>>
    /\ document_ids = <<>>
    /\ uploaded = <<>>
    /\ returned = <<>>
    /\ route = "none"
    /\ pc = "idle"
    /\ test_case_id = 0
    /\ model_name = <<>>
    /\ tools = NoTools
    /\ strategy = "none"
    /\ agent_response = <<>>
    /\ tool_calls = <<>>
    /\ idx = 0
    /\ actions_taken = <<>>
    /\ output = NoOutput
    /\ error = ""
    /\ http_status = 0
    /\ provider_calls = <<>>
    /\ tool_runs = <<>>
    /\ \E given \in DocumentLists(MaxDocuments) :
          \E documents \in {NoLabels, LabelList(given)} :
             \* the store is looked at only when no documents are given
             \E stored \in IF Truthy(documents) THEN {<<>>} ELSE RagStores :
             \E encoder \in Encoders(Len(UsedDocuments(documents, stored))) :
             \E query \in RetrievalQueries, top_k \in RetrievalTopK :
                task_in = [service |-> "rag", query |-> query,
                           documents |-> documents, top_k |-> top_k,
                           stored |-> stored, encoder |-> encoder]

\* one call of _retrieve_documents; whatever the encoder raises is caught
\* inside it, so the call returns
Retrieve ==
    /\ pc = "idle"
    /\ output' = _retrieve_documents(task_in.query, task_in.documents,
                                     task_in.top_k, task_in.stored,
                                     task_in.encoder)
    /\ pc' = "retrieved"
    /\ UNCHANGED <<env, storeVars, db, route, test_case_id, model_name, tools, strategy,
                   agent_response, tool_calls, idx, actions_taken, error,
                   http_status, provider_calls, tool_runs, task_in>>

RetrievalNext == Retrieve

RetrievalSpec == RetrievalInit /\ [][RetrievalNext]_vars

\* the documents the call of this state ranks
Ranked == UsedDocuments(task_in.documents, task_in.stored)

\* whether the call of this state took the semantic path
SemanticPath == Ranked # <<>> /\ task_in.encoder.state = "present"

\* the score the path taken gives the document at place i (from 0)
ScoreAt(i) ==
    IF SemanticPath THEN task_in.encoder.score[i]
    ELSE KeywordScore(WordSet(task_in.query), Ranked[i + 1])

\* whether the scores of consecutive passages never rise
ScoresFall(passages) ==
    \A n \in 1..(Len(passages) - 1) : FLeq(passages[n + 1].score, passages[n].score)

\* C11: for every query, every document list and every integer k, on the
\* semantic and on the keyword path, retrieval returns at most min(k, number
\* of documents) passages, and the scores of consecutive passages do not rise.
\* A length is never below zero, so for a k below zero the bound is read as 0.
C11_LengthAndOrder ==
    pc = "retrieved" =>
        /\ Len(output) <= Max(0, Min(task_in.top_k, Len(Ranked)))
        /\ ScoresFall(output)

\* the places (from 0) of the passages returned
ReturnedPlaces == {output[n].index : n \in 1..Len(output)}

\* whether no document left out scores above a returned passage
KeepsHighest ==
    \A i \in (0..(Len(Ranked) - 1)) \ ReturnedPlaces :
        \A n \in 1..Len(output) : ~FLt(output[n].score, ScoreAt(i))

\* whether, among equal scores, the lower place comes first and is the one kept
TiesByPlace ==
    /\ \A n \in 1..Len(output) : \A m \in (n + 1)..Len(output) :
           output[n].score = output[m].score => output[n].index < output[m].index
    /\ \A i \in (0..(Len(Ranked) - 1)) \ ReturnedPlaces :
           \A n \in 1..Len(output) :
               output[n].score = ScoreAt(i) => output[n].index < i

\* C12: on the semantic and on the keyword path, the result is the k
\* highest-scoring documents (no document left out scores strictly higher than
\* a returned one), and among equal scores the document with the lower
\* original index is ranked first and is the one kept when only one fits.
C12_HighestFirstTiesByIndex ==
    (pc = "retrieved" /\ task_in.top_k >= 0) =>
        /\ Len(output) = Min(task_in.top_k, Len(Ranked))
        /\ KeepsHighest
        /\ TiesByPlace

\* the same on the keyword path alone, where list.sort is stable
KeywordPathTiesByIndex ==
    (pc = "retrieved" /\ task_in.top_k >= 0 /\ ~SemanticPath) =>
        /\ Len(output) = Min(task_in.top_k, Len(Ranked))
        /\ KeepsHighest
        /\ TiesByPlace

\* the words of a text: the longest runs of its lower-cased characters that
\* hold no white space
WordsOf(text) ==
    LET t == lower(text)
        Run(i, j) == \A n \in i..j : t[n] \notin Whitespace
    IN  {SubSeq(t, i, j) : <<i, j>> \in
            {p \in (1..Len(t)) \X (1..Len(t)) :
                /\ p[1] <= p[2]
                /\ Run(p[1], p[2])
                /\ (p[1] = 1 \/ t[p[1] - 1] \in Whitespace)
                /\ (p[2] = Len(t) \/ t[p[2] + 1] \in Whitespace)}}

\* the share of the query's words that the document at place i (from 0) holds
OverlapAt(i) ==
    IF WordsOf(task_in.query) = {} THEN Zero
    ELSE Frac(Cardinality(WordsOf(task_in.query) \cap WordsOf(Ranked[i + 1])),
              Cardinality(WordsOf(task_in.query)))

\* whether passage p would stand before the document at place i in the ranking
Before(p, i) ==
    FLt(OverlapAt(i), p.score) \/ (p.score = OverlapAt(i) /\ p.index < i)

\* whether the passages are the head of the ranking of the documents by
\* falling overlap, equal overlaps by rising place
IsKeywordRanking(passages) ==
    /\ \A n \in 1..Len(passages) :
           /\ passages[n].index \in 0..(Len(Ranked) - 1)
           /\ passages[n].content = Ranked[passages[n].index + 1]
           /\ passages[n].score = OverlapAt(passages[n].index)
    /\ \A n \in 1..Len(passages) : \A m \in (n + 1)..Len(passages) :
           Before(passages[n], passages[m].index)
    /\ \A i \in (0..(Len(Ranked) - 1)) \ {passages[n].index : n \in 1..Len(passages)} :
           \A n \in 1..Len(passages) : Before(passages[n], i)
    /\ Len(passages) = Len(PySlice(Ranked, task_in.top_k))

\* C13: for every query and every non-empty document list, retrieval returns
\* whether the encoder is absent, present, or raises; when it is absent or
\* raises, the result is the keyword-overlap ranking with score
\* |words(query) /\ words(doc)| / |words(query)| over lower-cased
\* whitespace-split words, and score 0 for every document when the query has
\* no words.
C13_FallsBackToKeywordRanking ==
    (pc = "retrieved" /\ Truthy(task_in.documents)) =>
        /\ error = ""
        /\ task_in.encoder.state \in {"absent", "raises"} => IsKeywordRanking(output)

\* the encoder raised, and the ranking holds a document with a word of the
\* query before one with none
C13_Witness ==
    /\ pc = "retrieved"
    /\ Truthy(task_in.documents)
    /\ task_in.encoder.state = "raises"
    /\ task_in.top_k = 2
    /\ Len(output) = 2
    /\ output[1].index = 1
    /\ FLt(Zero, output[1].score)
    /\ output[2].score = Zero

(***************************************************************************)
(* The document store of a RAGService, and the two routes that reach it.   *)
(* document_store is a dict: a sequence of entries in insertion order, at  *)
(* most one for a key.  The operations of the service are coroutines with  *)
(* no point of suspension in them (nothing they await awaits anything), so *)
(* on the event loop a call runs from start to end before another starts:  *)
(* a call is one step, and calls interleave in any order.                  *)
(***************************************************************************)
MaxStored == 3
MaxBatch == 2

Underscore == "_"
Digits == <<"0", "1", "2", "3", "4", "5", "6", "7", "8", "9">>

\* str(n) for n >= 0
RECURSIVE Decimal(_)
Decimal(n) ==
    IF n < 10 THEN <<Digits[n + 1]>>
    ELSE Decimal(n \div 10) \o <<Digits[(n % 10) + 1]>>

\* a variant of doc_id that leaves the size of the store out of the id
doc_id_WithoutLength(collection_name, length, i) ==
    collection_name \o <<Underscore>> \o Decimal(i)

\* f"{collection_name}_{len(self.document_store)}_{i}"
doc_id(collection_name, length, i) ==
    collection_name \o <<Underscore>> \o Decimal(length) \o <<Underscore>> \o Decimal(i)

\* the keys and the values of a dict, in insertion order
Keys(store) == [n \in 1..Len(store) |-> store[n].id]
Values(store) == [n \in 1..Len(store) |-> store[n].doc]

\* store[key] = value: a new key is appended, a known key keeps its place
DictSet(store, key, value) ==
    IF \E n \in 1..Len(store) : store[n].id = key
    THEN [n \in 1..Len(store) |->
             IF store[n].id = key THEN [id |-> key, doc |-> value] ELSE store[n]]
    ELSE Append(store, [id |-> key, doc |-> value])

\* the loop of add_documents from document i (from 0) on: the store and the
\* ids at its end
RECURSIVE AddFrom(_, _, _, _, _)
AddFrom(store, ids, documents, collection_name, i) ==
    IF i >= Len(documents) THEN [store |-> store, document_ids |-> ids]
    ELSE LET id == doc_id(collection_name, Len(store), i)
         IN  AddFrom(DictSet(store, id, documents[i + 1]), Append(ids, id),
                     documents, collection_name, i + 1)

\* the documents of the store whose id starts with the name of the collection
RECURSIVE CollectionDocs(_, _)
CollectionDocs(store, collection_name) ==
    IF store = <<>> THEN <<>>
    ELSE (IF StartsWith(Head(store).id, collection_name)
          THEN <<Head(store).doc>> ELSE <<>>)
         \o CollectionDocs(Tail(store), collection_name)

\* RAGService.search_documents on a store
SearchStore(store, query, collection_name, top_k, encoder) ==
    _retrieve_documents(query, LabelList(CollectionDocs(store, collection_name)),
                        top_k, Values(store), encoder)

DefaultCollection == <<"d">>
Collections == {DefaultCollection, <<"d", Underscore, "0">>, <<"c">>}
StoreTexts == {<<"a">>, <<"b">>}
StoreQueries == {<<"a">>}
StoreTopK == {1, 5}

\* the batches of at most n documents
RECURSIVE Batches(_)
Batches(n) ==
    IF n = 0 THEN {<<>>}
    ELSE LET shorter == Batches(n - 1)
         IN  shorter \cup {Append(l, d) : l \in shorter, d \in StoreTexts}

\* what the encoder may do on a search over n documents: be absent, raise, or
\* score all alike and leave them in falling order of place
StoreEncoders(n) ==
    {NoEncoder, FailingEncoder,
     Encoder([i \in 0..(n - 1) |-> Frac(1, 2)], [m \in 1..n |-> n - m])}

\* the documents the search ranks
Searched(store, collection_name) ==
    UsedDocuments(LabelList(CollectionDocs(store, collection_name)), Values(store))

ServedVars == <<env, db, test_case_id, model_name, tools, strategy, agent_response,
                tool_calls, idx, actions_taken, error, http_status, provider_calls,
                tool_runs, task_in>>

StoreInit ==
    /\ Unused
    /\ model_name = <<>>
    /\ agent_response = <<>>
    /\ actions_taken = <<>>

\* one call of RAGService.add_documents on the service
add_documents(documents, collection_name) ==
    /\ pc = "idle"
    /\ Len(document_store) + Len(documents) <= MaxStored
    /\ LET end == AddFrom(document_store, <<>>, documents, collection_name, 0)
       IN  /\ document_store' = end.store
           /\ document_ids' = document_ids \o end.document_ids
           /\ output' = end.document_ids
    /\ route' = "add_documents"
    /\ UNCHANGED <<ServedVars, pc, uploaded, returned>>

\* one call of RAGService.search_documents on the service
search_documents(query, collection_name, top_k) ==
    /\ pc = "idle"
    /\ \E encoder \in StoreEncoders(Len(Searched(document_store, collection_name))) :
          output' = SearchStore(document_store, query, collection_name, top_k, encoder)
    /\ route' = "search_documents"
    /\ UNCHANGED <<ServedVars, pc, document_store, document_ids, uploaded, returned>>

StoreNext ==
    \/ \E documents \in Batches(MaxBatch), collection_name \in Collections :
           add_documents(documents, collection_name)
    \/ \E query \in StoreQueries, collection_name \in Collections, top_k \in StoreTopK :
           search_documents(query, collection_name, top_k)

StoreSpec == StoreInit /\ [][StoreNext]_vars

\* whether no two places of a sequence hold the same value
Distinct(seq) == \A n \in 1..Len(seq) : \A m \in (n + 1)..Len(seq) : seq[n] # seq[m]

\* C14: under any interleaving of add_documents calls (equal or different
\* collection names, any batch sizes) and search_documents calls on one
\* RAGService, no add overwrites, changes or removes an earlier entry, every
\* id an add returns differs from every id returned earlier, and after adds
\* totalling n documents the store holds exactly n entries.
C14_AppendOnly ==
    [][/\ Len(document_store') >= Len(document_store)
       /\ SubSeq(document_store', 1, Len(document_store)) = document_store
       /\ Distinct(document_ids')
       /\ Len(document_store') = Len(document_ids')
       /\ Keys(document_store') = document_ids']_vars

\* a batch of one went to a collection, then a batch of two to a collection
\* whose name the first one's name starts with, and the store is full
C14_Witness ==
    /\ route = "add_documents"
    /\ document_ids = <<doc_id(<<"d", Underscore, "0">>, 0, 0),
                        doc_id(DefaultCollection, 1, 0),
                        doc_id(DefaultCollection, 2, 1)>>
    /\ Len(document_store) = MaxStored

(***************************************************************************)
(* The routes /upload-documents/ and /search-documents/.  Each request     *)
(* constructs its own RAGService, whose document_store starts empty.       *)
(***************************************************************************)
\* RAGService(): the fields of a service just constructed
RAGService == [document_store |-> <<>>]

\* the documents sent, each with the collection it was sent to
Sent(documents, collection_name) ==
    [n \in 1..Len(documents) |-> [collection |-> collection_name, doc |-> documents[n]]]

\* the documents sent to a collection so far, in order
RECURSIVE SentTo(_, _)
SentTo(sent, collection_name) ==
    IF sent = <<>> THEN <<>>
    ELSE (IF Head(sent).collection = collection_name THEN <<Head(sent).doc>> ELSE <<>>)
         \o SentTo(Tail(sent), collection_name)

RequestVars == <<env, db, test_case_id, model_name, tools, strategy, agent_response,
                 tool_calls, idx, actions_taken, error, provider_calls,
                 tool_runs, document_store, document_ids>>

\* POST /upload-documents/
upload_documents(documents, collection_name) ==
    /\ pc = "idle"
    /\ Len(uploaded) + Len(documents) <= MaxStored
    /\ LET rag_service == RAGService
           result == AddFrom(rag_service.document_store, <<>>, documents,
                             collection_name, 0).document_ids
       IN  output' = [collection_name |-> collection_name, document_ids |-> result]
    /\ uploaded' = uploaded \o Sent(documents, collection_name)
    /\ task_in' = [documents |-> documents, collection_name |-> collection_name]
    /\ route' = "upload-documents"
    /\ http_status' = 200
    /\ UNCHANGED <<RequestVars, pc, returned>>

\* POST /search-documents/
route_search_documents(query, collection_name, top_k) ==
    /\ pc = "idle"
    /\ LET rag_service == RAGService
       IN  \E encoder \in StoreEncoders(Len(Searched(rag_service.document_store,
                                                     collection_name))) :
              output' = [query |-> query,
                         results |-> SearchStore(rag_service.document_store, query,
                                                 collection_name, top_k, encoder)]
    /\ task_in' = [query |-> query, collection_name |-> collection_name,
                   top_k |-> top_k]
    /\ route' = "search-documents"
    /\ http_status' = 200
    /\ UNCHANGED <<RequestVars, pc, uploaded, returned>>

UploadNext ==
    \/ \E documents \in Batches(MaxBatch), collection_name \in Collections :
           upload_documents(documents, collection_name)
    \/ \E query \in StoreQueries, collection_name \in Collections, top_k \in StoreTopK :
           route_search_documents(query, collection_name, top_k)

UploadSpec == StoreInit /\ [][UploadNext]_vars

\* C15: the document store is process-wide: after an upload-documents request
\* added documents to a collection, every later search-documents request for
\* that collection in the same process ranks over those documents.
C15_SearchRanksUploaded ==
    (route = "search-documents" /\ SentTo(uploaded, task_in.collection_name) # <<>>) =>
        LET sent == SentTo(uploaded, task_in.collection_name)
        IN  /\ Len(output.results) = Min(task_in.top_k, Len(sent))
            /\ \A n \in 1..Len(output.results) :
                   \E m \in 1..Len(sent) : output.results[n].content = sent[m]

(***************************************************************************)
(* The fallback strategy of the five services, called more than once with  *)
(* the same input and the same model name.                                 *)
(***************************************************************************)
MaxInvocations == 2

FallbackNames == {<<"m", "o", "c", "k">>, <<"G", "P", "T", "-", "4">>, HuggingfaceBert}

\* the inputs of the five operations; the RAG input is the query with the
\* passages retrieved for it
FallbackInputs ==
    {[service |-> "classification", text |-> text, labels |-> labels] :
         text \in ClassifyTexts, labels \in ClassifyLabels}
    \cup {[service |-> "correction", text |-> text] : text \in CorrectTexts}
    \cup {[service |-> "dialogue", message |-> message, context |-> context] :
              message \in DialogueMessages, context \in DialogueContexts}
    \cup {Retrieved(query, documents, top_k, <<>>, NoEncoder) :
              query \in RagQueries, documents \in RagDocuments, top_k \in RagTopK}
    \cup {[service |-> "agent", task |-> <<"t">>, tools |-> tl] : tl \in InteractiveTools}

FallbackInit ==
    /\ env = [openai |-> TRUE, anthropic |-> TRUE]
    /\ db = <<>>
    /\ document_store = <<>>
    /\ document_ids = <<>>
    /\ uploaded = <<>>
    /\ returned = <<>>
    /\ route = "none"
    /\ pc = "idle"
    /\ test_case_id = 0
    /\ tools = NoTools
    /\ strategy = "none"
    /\ agent_response = <<>>
    /\ tool_calls = <<>>
    /\ idx = 0
    /\ actions_taken = <<>>
    /\ output = NoOutput
    /\ error = ""
    /\ http_status = 0
    /\ provider_calls = <<>>
    /\ tool_runs = <<>>
    /\ model_name \in FallbackNames
    /\ \E input \in FallbackInputs :
          /\ select(input.service, model_name) = "mock"
          /\ task_in = input

\* one more call with the input and the name of this behaviour: the fallback
\* is chosen and returns one of the outputs its draws allow
Fallback(outs) ==
    /\ pc = "idle"
    /\ Len(returned) < MaxInvocations
    /\ strategy' = select(task_in.service, model_name)
    /\ \E out \in outs :
          /\ output' = out
          /\ returned' = Append(returned, out)
    /\ UNCHANGED <<env, db, route, pc, test_case_id, model_name, tools,
                   agent_response, tool_calls, idx, actions_taken, error,
                   http_status, provider_calls, tool_runs, task_in,
                   document_store, document_ids, uploaded>>

\* ClassificationService._classify_mock
MockClassify ==
    /\ task_in.service = "classification"
    /\ Fallback(ClassifierMockOutputs(task_in.labels))

\* CorrectionService._correct_mock
MockCorrect ==
    /\ task_in.service = "correction"
    /\ Fallback({_correct_mock(task_in.text, c) : c \in MockConfidences})

\* DialogueService._generate_mock
MockRespond ==
    /\ task_in.service = "dialogue"
    /\ Fallback(DialogueMockOutputs(task_in.message, task_in.context))

\* RAGService._generate_mock
MockAnswer ==
    /\ task_in.service = "rag"
    /\ Fallback(RagMockOutputs(task_in.query, task_in.retrieved_docs))

\* AgentService._execute_mock
MockExecute ==
    /\ task_in.service = "agent"
    /\ Fallback({_execute_mock(task_in.task, task_in.tools, c) : c \in MockConfidences})

FallbackNext ==
    \/ MockClassify
    \/ MockCorrect
    \/ MockRespond
    \/ MockAnswer
    \/ MockExecute

FallbackSpec == FallbackInit /\ [][FallbackNext]_vars

\* C16: under the fallback strategy, for all five task kinds, no provider call
\* is made, and two invocations with the same input and the same model name
\* return the same TaskOutput: the same label, text or actions and the same
\* confidence.
C16_FallbackDeterministic ==
    /\ provider_calls = <<>>
    /\ \A n \in 1..Len(returned) : \A m \in 1..Len(returned) : returned[n] = returned[m]

\* the part of it about provider calls alone
FallbackCallsNoProvider == returned # <<>> => provider_calls = <<>>

(***************************************************************************)
(* _calculate_similarity of the four scorers on its own: one pair of       *)
(* texts, compared as given, with the two texts swapped, and lower-cased.  *)
(***************************************************************************)
MaxTextLength == 3

SimilarityAlphabet == {"a", "b", "c", "A"}

\* the texts of at most n characters
RECURSIVE TextsOf(_)
TextsOf(n) ==
    IF n = 0 THEN {<<>>}
    ELSE LET shorter == TextsOf(n - 1)
         IN  shorter \cup {Append(t, c) : t \in shorter, c \in SimilarityAlphabet}

\* _calculate_similarity of the correction service: the texts are compared as
\* they are
_calculate_similarity_correction(text1, text2) ==
    IF text1 = text2 THEN One ELSE ratio(text1, text2)

Scorers == {"correction", "dialogue", "rag", "agent"}

\* what each scorer's _calculate_similarity returns for a pair of texts
Similarity(text1, text2) ==
    [s \in Scorers |->
        IF s = "correction" THEN _calculate_similarity_correction(text1, text2)
        ELSE _calculate_similarity(text1, text2)]

SimilarityInit ==
    /\ env = [openai |-> TRUE, anthropic |-> TRUE]
    /\ db = <<>>
    /\ document_store = <<>>
    /\ document_ids = <<>>
    /\ uploaded = <<>>
    /\ returned = <<>>
    /\ route = "none"
    /\ pc = "idle"
    /\ test_case_id = 0
    /\ model_name = <<>>
    /\ tools = NoTools
    /\ strategy = "none"
    /\ agent_response = <<>>
    /\ tool_calls = <<>>
    /\ idx = 0
    /\ actions_taken = <<>>
    /\ output = NoOutput
    /\ error = ""
    /\ http_status = 0
    /\ provider_calls = <<>>
    /\ tool_runs = <<>>
    /\ \E text1 \in TextsOf(MaxTextLength), text2 \in TextsOf(MaxTextLength) :
          task_in = [text1 |-> text1, text2 |-> text2]

\* one call of every scorer's _calculate_similarity on a pair not compared yet
Compared(text1, text2) ==
    LET call == [text1 |-> text1, text2 |-> text2,
                 similarity |-> Similarity(text1, text2)]
    IN  /\ \A n \in 1..Len(returned) : returned[n] # call
        /\ returned' = Append(returned, call)
        /\ output' = call.similarity
        /\ UNCHANGED <<env, db, route, pc, test_case_id, model_name, tools, strategy,
                       agent_response, tool_calls, idx, actions_taken, error,
                       http_status, provider_calls, tool_runs, task_in,
                       document_store, document_ids, uploaded>>

\* the pair as given
Compare ==
    /\ pc = "idle"
    /\ Compared(task_in.text1, task_in.text2)

\* the pair with the two texts swapped
CompareSwapped ==
    /\ pc = "idle"
    /\ Compared(task_in.text2, task_in.text1)

\* the pair in lower case
CompareLowered ==
    /\ pc = "idle"
    /\ Compared(lower(task_in.text1), lower(task_in.text2))

SimilarityNext ==
    \/ Compare
    \/ CompareSwapped
    \/ CompareLowered

SimilaritySpec == SimilarityInit /\ [][SimilarityNext]_vars

\* C18: in every scorer that uses it (correction, dialogue, RAG, agent), for
\* all texts a and b the similarity is exactly 1.0 if and only if
\* lower(a) = lower(b), and it is the same for every two pairs that differ in
\* letter case only.
C18_OneIffEqualIgnoringCase ==
    /\ \A n \in 1..Len(returned) : \A s \in Scorers :
           returned[n].similarity[s] = One
               <=> lower(returned[n].text1) = lower(returned[n].text2)
    /\ \A n \in 1..Len(returned) : \A m \in 1..Len(returned) :
           (/\ lower(returned[n].text1) = lower(returned[m].text1)
            /\ lower(returned[n].text2) = lower(returned[m].text2))
           => returned[n].similarity = returned[m].similarity

\* the same for the three scorers that lower-case the texts before comparing
LoweringScorersIgnoreCase ==
    /\ \A n \in 1..Len(returned) : \A s \in Scorers \ {"correction"} :
           returned[n].similarity[s] = One
               <=> lower(returned[n].text1) = lower(returned[n].text2)
    /\ \A n \in 1..Len(returned) : \A m \in 1..Len(returned) :
           (/\ lower(returned[n].text1) = lower(returned[m].text1)
            /\ lower(returned[n].text2) = lower(returned[m].text2))
           => \A s \in Scorers \ {"correction"} :
                  returned[n].similarity[s] = returned[m].similarity[s]

\* C19: text similarity is symmetric: for all texts a and b,
\* similarity(a, b) = similarity(b, a), the similarity being the ratio
\* 2*M / (len(a) + len(b)) with M the number of characters the scorers'
\* longest-matching-block alignment matches.
C19_Symmetric ==
    \A n \in 1..Len(returned) : \A m \in 1..Len(returned) :
        (returned[n].text1 = returned[m].text2 /\ returned[n].text2 = returned[m].text1)
        => returned[n].similarity = returned[m].similarity

(***************************************************************************)
(* The five evaluate operations.  An evaluate returns the dict of metrics, *)
(* or raises.                                                              *)
(***************************************************************************)
\* ClassificationService.evaluate
evaluate_classification(predicted, expected) ==
    [accuracy |-> IF predicted.predicted_label = expected.predicted_label
                  THEN One ELSE Zero,
     predicted_label |-> predicted.predicted_label,
     expected_label |-> expected.predicted_label,
     confidence_diff |-> FAbs(FSub(predicted.confidence, expected.confidence)),
     predicted_confidence |-> predicted.confidence,
     expected_confidence |-> expected.confidence]

\* CorrectionService.evaluate
evaluate_correction(predicted, expected) ==
    [similarity_score |-> _calculate_similarity_correction(predicted.corrected_text,
                                                           expected.corrected_text),
     correction_count_diff |-> Abs(Len(predicted.corrections) - Len(expected.corrections)),
     confidence_diff |-> FAbs(FSub(predicted.confidence, expected.confidence)),
     predicted_corrections |-> Len(predicted.corrections),
     expected_corrections |-> Len(expected.corrections),
     predicted_confidence |-> predicted.confidence,
     expected_confidence |-> expected.confidence]

\* DialogueService.evaluate; the division for length_ratio raises when both
\* responses are empty
evaluate_dialogue(predicted, expected) ==
    IF Max(Len(predicted.response), Len(expected.response)) = 0
    THEN Raises("ZeroDivisionError")
    ELSE [relevance_score |-> _calculate_similarity(predicted.response, expected.response),
          length_diff |-> Abs(Len(predicted.response) - Len(expected.response)),
          length_ratio |-> Frac(Min(Len(predicted.response), Len(expected.response)),
                                Max(Len(predicted.response), Len(expected.response))),
          confidence_diff |-> FAbs(FSub(predicted.confidence, expected.confidence)),
          context_consistency |-> IF predicted.context_used = expected.context_used
                                  THEN One ELSE Zero,
          predicted_length |-> Len(predicted.response),
          expected_length |-> Len(expected.response),
          predicted_confidence |-> predicted.confidence,
          expected_confidence |-> expected.confidence]

\* set([doc['content'] for doc in docs])
Contents(docs) == {docs[n].content : n \in 1..Len(docs)}

\* a variant of _evaluate_retrieval_quality that counts every predicted
\* passage, expected or not
_evaluate_retrieval_quality_CountingAll(predicted_docs, expected_docs) ==
    IF expected_docs = <<>> THEN Zero
    ELSE Frac(Len(predicted_docs), Cardinality(Contents(expected_docs)))

\* a variant of _evaluate_retrieval_quality that divides by the number of
\* predicted contents
_evaluate_retrieval_quality_OverPredicted(predicted_docs, expected_docs) ==
    IF expected_docs = <<>> \/ predicted_docs = <<>> THEN Zero
    ELSE Frac(Cardinality(Contents(predicted_docs) \cap Contents(expected_docs)),
              Cardinality(Contents(predicted_docs)))

\* _evaluate_retrieval_quality
_evaluate_retrieval_quality(predicted_docs, expected_docs) ==
    IF expected_docs = <<>> THEN Zero
    ELSE Frac(Cardinality(Contents(predicted_docs) \cap Contents(expected_docs)),
              Cardinality(Contents(expected_docs)))

\* a variant of evaluate_rag that measures the retrieved passages against the
\* size of the document store
evaluate_rag_AgainstStore(predicted, expected) ==
    [answer_quality |-> _calculate_similarity(predicted.answer, expected.answer),
     retrieval_quality |->
         IF expected.retrieved_documents # <<>>
         THEN _evaluate_retrieval_quality(predicted.retrieved_documents,
                                          expected.retrieved_documents)
         ELSE Zero,
     retrieved_count_diff |-> Abs(Len(predicted.retrieved_documents)
                                  - Len(document_store)),
     confidence_diff |-> FAbs(FSub(predicted.confidence, expected.confidence)),
     predicted_retrieved_count |-> Len(predicted.retrieved_documents),
     expected_retrieved_count |-> Len(expected.retrieved_documents),
     predicted_confidence |-> predicted.confidence,
     expected_confidence |-> expected.confidence]

\* RAGService.evaluate
evaluate_rag(predicted, expected) ==
    [answer_quality |-> _calculate_similarity(predicted.answer, expected.answer),
     retrieval_quality |->
         IF expected.retrieved_documents # <<>>
         THEN _evaluate_retrieval_quality(predicted.retrieved_documents,
                                          expected.retrieved_documents)
         ELSE Zero,
     retrieved_count_diff |-> Abs(Len(predicted.retrieved_documents)
                                  - Len(expected.retrieved_documents)),
     confidence_diff |-> FAbs(FSub(predicted.confidence, expected.confidence)),
     predicted_retrieved_count |-> Len(predicted.retrieved_documents),
     expected_retrieved_count |-> Len(expected.retrieved_documents),
     predicted_confidence |-> predicted.confidence,
     expected_confidence |-> expected.confidence]

\* confidences as they reach a scorer: inside [0, 1], and outside it when a
\* provider's JSON supplied them
ScoredConfidences == {Frac(-1, 1), Frac(1, 2), Frac(5, 1)}
ScoredTexts == {<<>>, <<"a">>, <<"A", "b">>}

ClassificationOutputs ==
    {ClassificationOutput(label, c, <<>>) :
         label \in {<<"a">>, <<"b">>}, c \in ScoredConfidences}

CorrectionOutputs ==
    {CorrectionOutput(text, corrections, c) :
         text \in ScoredTexts,
         corrections \in {<<>>, <<"fix">>, <<"fix", "fix">>},
         c \in {Frac(1, 2), Frac(5, 1)}}

DialogueOutputs ==
    {DialogueOutput(text, c, used) :
         text \in ScoredTexts, c \in {Frac(1, 2), Frac(5, 1)},
         used \in BOOLEAN}

\* passages as retrieval returns them
PassageLists ==
    LET p(text, place) == [content |-> text, score |-> One, index |-> place]
    IN  {<<>>, <<p(<<"a">>, 0)>>, <<p(<<"b">>, 0), p(<<"a">>, 1)>>,
         <<p(<<"x">>, 0), p(<<"a">>, 1)>>,
         <<p(<<"a">>, 0), p(<<"a">>, 1), p(<<"x">>, 2)>>}

RAGOutputs ==
    {RAGOutput(text, docs, c) :
         text \in {<<"a">>, <<"A", "b">>}, docs \in PassageLists,
         c \in {Frac(1, 2), Frac(5, 1)}}

ActionLists ==
    {<<>>, <<SuccessRecord("calculator", ArgsValid)>>,
     <<SuccessRecord("calculator", ArgsValid), FailedRecord("web_search", ArgsInvalid)>>,
     <<SuccessRecord("calculator", ArgsValid), SuccessRecord("calculator", ArgsValid),
       SuccessRecord("text_analyzer", ArgsValid)>>}

AgentOutputs ==
    {AgentOutput(text, actions, c) :
         text \in {<<"a">>, <<"A", "b">>}, actions \in ActionLists,
         c \in {Frac(1, 2), Frac(5, 1)}}

\* the pairs (predicted, expected) a scorer may be given
ScoredPairs ==
    UNION {{[service |-> s[1], predicted |-> predicted, expected |-> expected] :
                predicted \in s[2], expected \in s[2]} :
           s \in {<<"classification", ClassificationOutputs>>,
                  <<"correction", CorrectionOutputs>>,
                  <<"dialogue", DialogueOutputs>>,
                  <<"rag", RAGOutputs>>,
                  <<"agent", AgentOutputs>>}}

EvaluationInit ==
    /\ env = [openai |-> TRUE, anthropic |-> TRUE]
    /\ db = <<>>
    /\ document_store = <<>>
    /\ document_ids = <<>>
    /\ uploaded = <<>>
    /\ returned = <<>>
    /\ route = "none"
    /\ pc = "idle"
    /\ test_case_id = 0
    /\ model_name = <<>>
    /\ tools = NoTools
    /\ strategy = "none"
    /\ agent_response = <<>>
    /\ tool_calls = <<>>
    /\ idx = 0
    /\ actions_taken = <<>>
    /\ output = NoOutput
    /\ error = ""
    /\ http_status = 0
    /\ provider_calls = <<>>
    /\ tool_runs = <<>>
    /\ task_in \in ScoredPairs

\* one more call of evaluate on the pair of this behaviour: what it returned
\* or raised is the next of `returned`, and nothing else changes
Evaluated(result) ==
    /\ pc = "idle"
    /\ Len(returned) < MaxInvocations
    /\ returned' = Append(returned, result)
    /\ UNCHANGED <<env, db, route, pc, test_case_id, model_name, tools, strategy,
                   agent_response, tool_calls, idx, actions_taken, output, error,
                   http_status, provider_calls, tool_runs, task_in,
                   document_store, document_ids, uploaded>>

EvaluateClassification ==
    /\ task_in.service = "classification"
    /\ Evaluated(evaluate_classification(task_in.predicted, task_in.expected))

EvaluateCorrection ==
    /\ task_in.service = "correction"
    /\ Evaluated(evaluate_correction(task_in.predicted, task_in.expected))

EvaluateDialogue ==
    /\ task_in.service = "dialogue"
    /\ Evaluated(evaluate_dialogue(task_in.predicted, task_in.expected))

EvaluateRag ==
    /\ task_in.service = "rag"
    /\ Evaluated(evaluate_rag(task_in.predicted, task_in.expected))

EvaluateAgent ==
    /\ task_in.service = "agent"
    /\ Evaluated(evaluate_agent(task_in.predicted, task_in.expected))

\* an operation of the service between two evaluations: a document is added
\* to its store
AddBetween ==
    /\ route' = "add_documents"
    /\ add_documents(<<(<<"a">>)>>, DefaultCollection)

EvaluationNext ==
    \/ EvaluateClassification
    \/ EvaluateCorrection
    \/ EvaluateDialogue
    \/ EvaluateRag
    \/ EvaluateAgent
    \/ AddBetween

EvaluationSpec == EvaluationInit /\ [][EvaluationNext]_vars

\* whether a call of evaluate returned a dict of metrics
IsMetrics(result) == "confidence_diff" \in DOMAIN result

ScoreMetrics ==
    {"accuracy", "similarity_score", "relevance_score", "answer_quality",
     "task_completion_score", "retrieval_quality", "tool_usage_score",
     "length_ratio", "context_consistency"}
CountMetrics == {"correction_count_diff", "length_diff", "retrieved_count_diff",
                 "action_count_diff"}

\* C20: for every pair (predicted, expected) given to any of the five scorers,
\* the primary score of the metrics returned (accuracy, similarity_score,
\* relevance_score, answer_quality, task_completion_score) and the overlap
\* scores (retrieval_quality, tool_usage_score, length_ratio,
\* context_consistency) lie in [0, 1], and every count or difference metric
\* (correction_count_diff, length_diff, retrieved_count_diff,
\* action_count_diff, confidence_diff) is at least 0.
C20_MetricsInRange ==
    \A n \in 1..Len(returned) :
        IsMetrics(returned[n]) =>
            /\ \A key \in ScoreMetrics \cap DOMAIN returned[n] :
                   InUnitInterval(returned[n][key])
            /\ \A key \in CountMetrics \cap DOMAIN returned[n] : returned[n][key] >= 0
            /\ FLeq(Zero, returned[n].confidence_diff)

\* every scorer has its primary score among the metrics it returns
PrimaryScore ==
    [s \in Services |->
        CASE s = "classification" -> "accuracy"
          [] s = "correction" -> "similarity_score"
          [] s = "dialogue" -> "relevance_score"
          [] s = "rag" -> "answer_quality"
          [] s = "agent" -> "task_completion_score"]

ReturnsPrimaryScore ==
    \A n \in 1..Len(returned) :
        IsMetrics(returned[n]) => PrimaryScore[task_in.service] \in DOMAIN returned[n]

\* the RAG scorer got more passages than were expected, with confidences
\* outside [0, 1], and returned an overlap of 1 and an answer score below 1
C20_Witness ==
    /\ task_in.service = "rag"
    /\ Len(task_in.predicted.retrieved_documents) = 3
    /\ Len(task_in.expected.retrieved_documents) = 1
    /\ task_in.predicted.confidence = Frac(5, 1)
    /\ returned # <<>>
    /\ IsMetrics(returned[1])
    /\ returned[1].retrieval_quality = One
    /\ FLt(returned[1].answer_quality, One)
    /\ returned[1].retrieved_count_diff = 2

\* the items of `wanted` that occur among `found`, over the number of items
\* of `wanted`; 0 when nothing is wanted
OverlapShare(found, wanted) ==
    IF wanted = {} THEN Zero
    ELSE Frac(Cardinality({w \in wanted : w \in found}), Cardinality(wanted))

\* the overlap metric of the pair of this behaviour, and the items predicted
\* and expected: passage contents for RAG, tool names for the agent
OverlapKey == IF task_in.service = "rag" THEN "retrieval_quality" ELSE "tool_usage_score"
PredictedItems ==
    IF task_in.service = "rag"
    THEN {task_in.predicted.retrieved_documents[n].content :
              n \in 1..Len(task_in.predicted.retrieved_documents)}
    ELSE {task_in.predicted.actions_taken[n].tool :
              n \in 1..Len(task_in.predicted.actions_taken)}
ExpectedItems ==
    IF task_in.service = "rag"
    THEN {task_in.expected.retrieved_documents[n].content :
              n \in 1..Len(task_in.expected.retrieved_documents)}
    ELSE {task_in.expected.actions_taken[n].tool :
              n \in 1..Len(task_in.expected.actions_taken)}

\* C21: RAG retrieval_quality is the number of expected passage contents that
\* also occur among the predicted passages over the number of expected
\* contents, and agent tool_usage_score is the number of expected tool names
\* that also occur among the predicted actions over the number of expected
\* names; each is 1.0 whenever every expected item occurs in predicted, 0.5
\* for predicted {calculator} against expected {calculator, web_search}, and
\* 0.0 when expected is empty.
C21_OverlapMetrics ==
    \A n \in 1..Len(returned) :
        task_in.service \in {"rag", "agent"} =>
            /\ returned[n][OverlapKey] = OverlapShare(PredictedItems, ExpectedItems)
            /\ (ExpectedItems # {} /\ ExpectedItems \subseteq PredictedItems)
                   => returned[n][OverlapKey] = One
            /\ (PredictedItems = {"calculator"}
                /\ ExpectedItems = {"calculator", "web_search"})
                   => returned[n][OverlapKey] = Frac(1, 2)
            /\ ExpectedItems = {} => returned[n][OverlapKey] = Zero

\* the RAG scorer got three predicted passages that hold both of the two
\* expected ones, and returned a retrieval_quality of 1
C21_Witness ==
    /\ task_in.service = "rag"
    /\ Len(task_in.predicted.retrieved_documents) = 3
    /\ Len(task_in.expected.retrieved_documents) = 2
    /\ returned # <<>>
    /\ returned[1].retrieval_quality = One

\* the agent scorer got {calculator} against {calculator, web_search} and
\* returned a tool_usage_score of 1/2
AgentHalfOverlapReached ==
    /\ task_in.service = "agent"
    /\ PredictedItems = {"calculator"}
    /\ ExpectedItems = {"calculator", "web_search"}
    /\ returned # <<>>
    /\ returned[1].tool_usage_score = Frac(1, 2)

(***************************************************************************)
(* Label extraction on its own: one response that json.loads rejects, one  *)
(* non-empty list of labels.                                               *)
(***************************************************************************)
MaxLabels == 2

LabelTexts == {<<>>, <<"a">>, <<"c">>, <<"A", "b">>, <<"b", "a">>}

\* the non-empty lists of at most n labels
RECURSIVE LabelLists(_)
LabelLists(n) ==
    IF n = 1 THEN {<<l>> : l \in LabelTexts}
    ELSE LET shorter == LabelLists(n - 1)
         IN  shorter \cup {Append(ls, l) : ls \in shorter, l \in LabelTexts}

ExtractionInit ==
    /\ env = [openai |-> TRUE, anthropic |-> TRUE]
    /\ db = <<>>
    /\ document_store = <<>>
    /\ document_ids = <<>>
    /\ uploaded = <<>>
    /\ returned = <<>>
    /\ route = "none"
    /\ pc = "idle"
    /\ test_case_id = 0
    /\ model_name = Gpt4
    /\ tools = NoTools
    /\ strategy = "openai"
    /\ agent_response = <<>>
    /\ tool_calls = <<>>
    /\ idx = 0
    /\ actions_taken = <<>>
    /\ output = NoOutput
    /\ error = ""
    /\ http_status = 0
    /\ provider_calls = <<>>
    /\ tool_runs = <<>>
    /\ \E result_text \in TextsOf(MaxTextLength), names \in LabelLists(MaxLabels) :
          task_in = [service |-> "classification", text |-> <<"x">>,
                     labels |-> LabelList(names), result_text |-> result_text]

\* _classify_openai from the provider's response on, for a response that is
\* no JSON document
ExtractLabel ==
    /\ pc = "idle"
    /\ ~json_loads(task_in.result_text).ok
    /\ LET result == ParseClassification(task_in.result_text, task_in.labels)
       IN  /\ output' = IF result.type = "raised" THEN NoOutput ELSE result
           /\ error' = IF result.type = "raised" THEN result.error ELSE ""
    /\ pc' = "extracted"
    /\ UNCHANGED <<env, storeVars, db, route, test_case_id, model_name, tools, strategy,
                   agent_response, tool_calls, idx, actions_taken, http_status,
                   provider_calls, tool_runs, task_in>>

ExtractionNext == ExtractLabel

ExtractionSpec == ExtractionInit /\ [][ExtractionNext]_vars

\* whether the lower-cased label occurs in the lower-cased text
Occurs(label, text) ==
    \E i \in 0..(Len(text) - Len(label)) :
        \A n \in 1..Len(label) : LowerSymbol(text[i + n]) = LowerSymbol(label[n])

\* C22: for every response text that fails strict parsing and every non-empty
\* label list, the extracted label is the first label in the supplied order
\* whose lower-cased form occurs in the lower-cased text, or the first label
\* of the list when none occurs; the result is always a member of the list,
\* and no error is raised.
C22_FirstOccurringLabel ==
    pc = "extracted" =>
        LET names == task_in.labels.names
            occurring == {i \in 1..Len(names) : Occurs(names[i], task_in.result_text)}
        IN  /\ error = ""
            /\ output # NoOutput
            /\ \E i \in 1..Len(names) : output.predicted_label = names[i]
            /\ \A i \in occurring :
                   (\A j \in occurring : i <= j) => output.predicted_label = names[i]
            /\ occurring = {} => output.predicted_label = names[1]

\* the first label does not occur, and the second one occurs only when case
\* is ignored
C22_Witness ==
    /\ pc = "extracted"
    /\ Len(task_in.labels.names) = 2
    /\ ~Occurs(task_in.labels.names[1], task_in.result_text)
    /\ ~Contains(task_in.result_text, task_in.labels.names[2])
    /\ output.predicted_label = task_in.labels.names[2]
    /\ task_in.labels.names[2] # task_in.labels.names[1]

(***************************************************************************)
(* The defaults of the strict parse.                                       *)
(***************************************************************************)
\* the provider's response of a finished classify or correct call, when it
\* parsed as a JSON object and an output was built from it
LastResponse == provider_calls[Len(provider_calls)].response

ParsedAsObject(service) ==
    /\ task_in # PyNone
    /\ task_in.service = service
    /\ pc = "responded"
    /\ output # NoOutput
    /\ provider_calls # <<>>
    /\ provider_calls[Len(provider_calls)].outcome = "returned"
    /\ json_loads(LastResponse).ok
    /\ json_loads(LastResponse).value.type = "object"

Lacks(field) == field \notin DOMAIN json_loads(LastResponse).value.fields

\* the defaults the two services share with the statement: the confidences of
\* both, and the echoed text of the correction
SharedDefaults ==
    /\ ParsedAsObject("classification") /\ Lacks("confidence")
           => output.confidence = Frac(1, 2)
    /\ ParsedAsObject("correction") /\ Lacks("confidence")
           => output.confidence = Frac(8, 10)
    /\ ParsedAsObject("correction") /\ Lacks("corrected_text")
           => output.corrected_text = task_in.text

\* C23, as stated: when the response parses as a JSON object lacking a field, a missing
\* confidence takes 0.5 in classification and 0.8 in correction, and every
\* missing textual field (predicted_label, corrected_text) takes the raw input
\* text echoed back.
C23_StrictParseDefaults ==
    /\ SharedDefaults
    /\ ParsedAsObject("classification") /\ Lacks("predicted_label")
           => output.predicted_label = task_in.text

\* what the classification does instead: the label is the word "unknown"
LabelDefaultsToUnknown ==
    ParsedAsObject("classification") /\ Lacks("predicted_label")
        => output.predicted_label = <<"unknown">>

CorrectionEchoReached ==
    /\ ParsedAsObject("correction")
    /\ Lacks("corrected_text")
    /\ Lacks("confidence")

\* C23, as the code has it: a missing confidence takes 0.5 in classification
\* and 0.8 in correction, a missing corrected_text takes the input text, and a
\* missing predicted_label takes the word "unknown".
C23_DefaultsAsCoded ==
    /\ SharedDefaults
    /\ LabelDefaultsToUnknown

\* a classification built from an object that has neither field
C23_Witness ==
    /\ ParsedAsObject("classification")
    /\ Lacks("predicted_label")
    /\ Lacks("confidence")
    /\ output.predicted_label # task_in.text

(***************************************************************************)
(* The agent loop as a protocol.  The provider calls are awaited, the      *)
(* tools hold no await and run to their end in one step of the event loop; *)
(* the loop spec adds that a call the coroutine waits for returns or       *)
(* raises, and that the coroutine is then resumed.                         *)
(***************************************************************************)
\* the two routes that invoke the agent
AgentRequest ==
    \/ \E id \in RequestIds, name \in RequestModels : _run_agent_test_internal(id, name)
    \/ \E name \in RequestModels, tl \in InteractiveTools : interactive_agent_test(name, tl)

LoopNext ==
    \/ AgentRequest
    \/ PlanningReturns
    \/ ProviderFails
    \/ ExecuteToolCall
    \/ FinishExecuting
    \/ SynthesisReturns

\* the coroutine of a running invocation is resumed: it moves on to its next
\* await, to the next call of the loop, or to its end
Running == pc \in {"planning", "executing", "synthesizing"}

Resumed ==
    /\ Running
    /\ pc' \in {"planning", "executing", "synthesizing", "responded"}
    /\ idx' \in {idx, idx + 1, 1}

LoopSpec == Init /\ [][LoopNext]_vars /\ WF_<<pc, idx>>(Resumed)

ProviderBacked == AgentInvocation /\ strategy \in Provider

PendingCalls == {i \in 1..Len(provider_calls) : provider_calls[i].outcome = "pending"}

PlanningCalls == {i \in 1..Len(provider_calls) : provider_calls[i].call = "planning"}

\* the call blocks of a response: its opening markers
CallBlocks(text) == Len(SelectSeq(text, LAMBDA s : s = OpenTag))

\* Planning, then Executing, then the end
InOrder ==
    ProviderBacked =>
        /\ pc = "planning" => pc' \in {"planning", "executing", "responded"}
        /\ pc = "executing" => pc' \in {"executing", "synthesizing", "responded"}
        /\ pc = "synthesizing" => pc' \in {"synthesizing", "responded"}
        /\ pc = "responded" => pc' = "responded"

\* one Planning call, returned before any tool runs; at most one more call,
\* issued when the loop over the calls is over
CallsInTurn ==
    ProviderBacked =>
        /\ Len(provider_calls) <= 2
        /\ Cardinality(PlanningCalls) <= 1
        /\ pc # "idle" /\ provider_calls # <<>> => PlanningCalls = {1}
        /\ tool_runs # <<>> => PlanningReturned
        /\ Len(provider_calls) = 2 =>
               /\ provider_calls[2].call = "synthesis"
               /\ PlanningReturned
               /\ idx > Len(tool_calls)

\* no tool starts once the second call was issued, nor while a call is pending
ToolsBeforeSecondCall ==
    ProviderBacked /\ tool_runs' # tool_runs =>
        /\ Len(provider_calls) = 1
        /\ PendingCalls = {}
        /\ provider_calls' = provider_calls
        /\ Len(tool_runs') = Len(tool_runs) + 1

OneAtATime == ProviderBacked => Cardinality(PendingCalls) <= 1

\* the three ends of an invocation
Synthesizing ==
    /\ AgentReturned
    /\ actions_taken # <<>>
    /\ Len(provider_calls) = 2
    /\ provider_calls[2].outcome = "returned"
    /\ output.result = provider_calls[2].response

SynthesizingSkip ==
    /\ AgentReturned
    /\ actions_taken = <<>>
    /\ Len(provider_calls) = 1
    /\ output.result = agent_response

Failure == output = NoOutput /\ error # ""

\* the Planning response returned as it is although tools ran
ReturnedWithoutSynthesis ==
    /\ AgentReturned
    /\ actions_taken # <<>>
    /\ Len(provider_calls) = 1
    /\ output.result = agent_response

OneOf(ends) == \E e \in ends : e.holds /\ \A f \in ends : f.holds => f.name = e.name

EndsInOneOfThree ==
    ProviderBacked /\ pc = "responded" =>
        /\ OneOf({[name |-> "Synthesizing", holds |-> Synthesizing],
                  [name |-> "Synthesizing-Skip", holds |-> SynthesizingSkip],
                  [name |-> "failure", holds |-> Failure]})
        /\ PendingCalls = {}

OneRunPerBlock ==
    ProviderBacked => Len(tool_runs) <= CallBlocks(agent_response)

Terminates == (ProviderBacked /\ pc # "responded") ~> (pc = "responded")

\* C24: every provider-backed invocation visits Planning, Executing and its
\* end in this order; it issues exactly one Planning call before any tool runs
\* and at most one further call, which starts only after the last tool has
\* finished; at most one tool or provider call is in progress at any time;
\* and, each call returning or raising, the invocation terminates in exactly
\* one of Synthesizing, Synthesizing-Skip or failure after at most one tool
\* execution per call block.
C24_AgentLoopProtocol ==
    /\ [][InOrder /\ ToolsBeforeSecondCall]_vars
    /\ [](CallsInTurn /\ OneAtATime /\ OneRunPerBlock /\ EndsInOneOfThree)
    /\ Terminates

\* the same protocol with the fourth end the Anthropic strategy has
EndsInOneOfFour ==
    ProviderBacked /\ pc = "responded" =>
        /\ OneOf({[name |-> "Synthesizing", holds |-> Synthesizing],
                  [name |-> "Synthesizing-Skip", holds |-> SynthesizingSkip],
                  [name |-> "failure", holds |-> Failure],
                  [name |-> "unsynthesized", holds |-> ReturnedWithoutSynthesis]})
        /\ PendingCalls = {}
        /\ ReturnedWithoutSynthesis => strategy = "anthropic"

ProtocolWithFourEnds ==
    /\ [][InOrder /\ ToolsBeforeSecondCall]_vars
    /\ [](CallsInTurn /\ OneAtATime /\ OneRunPerBlock /\ EndsInOneOfFour)
    /\ Terminates

(***************************************************************************)
(* The records and the call blocks they come from.                         *)
(***************************************************************************)
\* record i is the record of the i-th permitted call of the Planning response,
\* and the i-th tool that ran is the tool of that call
FollowsCalls(calls) ==
    /\ Len(actions_taken) <= Len(calls)
    /\ Len(tool_runs) = Len(actions_taken)
    /\ \A i \in 1..Len(actions_taken) :
           /\ i <= Len(calls)
           /\ actions_taken[i].tool = ToolOf(calls[i]).v
           /\ actions_taken[i].args = DictGet(calls[i], "args", JObj(<<>>))
           /\ tool_runs[i] = actions_taken[i].tool

\* the records of a running loop stay a beginning of the permitted calls, and
\* an output that is returned carries all of them
RecordsOfReturnedOutput ==
    ProviderBacked /\ PlanningReturned =>
        LET calls == PermittedCalls(agent_response, tools)
        IN  /\ FollowsCalls(calls)
            /\ pc = "responded" /\ AgentReturned =>
                   /\ Len(actions_taken) = Len(calls)
                   /\ output.actions_taken = actions_taken

\* C25: actions_taken is exactly the sequence of the permitted, well-formed
\* call blocks of the Planning response in the order they appear there, the
\* blocks with unparsable JSON, unknown tools or disallowed tools removed and
\* nothing reordered or duplicated; record i was executed before record i+1.
C25_RecordsInBlockOrder ==
    ProviderBacked /\ PlanningReturned =>
        LET calls == PermittedCalls(agent_response, tools)
        IN  /\ FollowsCalls(calls)
            /\ pc \in {"synthesizing", "responded"} => Len(actions_taken) = Len(calls)

\* two records of two different tools were returned in the order of their
\* blocks
TwoRecordsInOrderReached ==
    /\ ProviderBacked
    /\ pc = "responded"
    /\ AgentReturned
    /\ Len(output.actions_taken) = 2
    /\ output.actions_taken[1].tool # output.actions_taken[2].tool

(***************************************************************************)
(* Collections of one RAGService: the adds are remembered with the         *)
(* collection each one named, the search with the collection it asked for. *)
(***************************************************************************)
\* add_documents, remembering what was added under which name
AddUnder(documents, collection_name) ==
    /\ pc = "idle"
    /\ Len(document_store) + Len(documents) <= MaxStored
    /\ LET end == AddFrom(document_store, <<>>, documents, collection_name, 0)
       IN  /\ document_store' = end.store
           /\ document_ids' = document_ids \o end.document_ids
           /\ output' = end.document_ids
    /\ uploaded' = uploaded \o Sent(documents, collection_name)
    /\ route' = "add_documents"
    /\ UNCHANGED <<ServedVars, pc, returned>>

\* search_documents, remembering the request
SearchIn(query, collection_name, top_k) ==
    /\ pc = "idle"
    /\ \E encoder \in StoreEncoders(Len(Searched(document_store, collection_name))) :
          output' = SearchStore(document_store, query, collection_name, top_k, encoder)
    /\ task_in' = [query |-> query, collection_name |-> collection_name, top_k |-> top_k]
    /\ route' = "search_documents"
    /\ UNCHANGED <<env, db, test_case_id, model_name, tools, strategy, agent_response,
                   tool_calls, idx, actions_taken, error, http_status, provider_calls,
                   tool_runs, pc, document_store, document_ids, uploaded, returned>>

CollectionNext ==
    \/ \E documents \in Batches(MaxBatch), collection_name \in Collections :
           AddUnder(documents, collection_name)
    \/ \E query \in StoreQueries, collection_name \in Collections, top_k \in StoreTopK :
           SearchIn(query, collection_name, top_k)

CollectionSpec == StoreInit /\ [][CollectionNext]_vars

\* the documents added under a collection
AddedUnder(collection_name) ==
    {uploaded[n].doc : n \in {m \in 1..Len(uploaded) :
                                  uploaded[m].collection = collection_name}}

\* C28: search_documents(query, c, k) returns only passages whose document was
\* added under the collection c, never a document of another collection: not
\* when c is a prefix of the other collection's name, and not when no
\* document was added under c.
C28_CollectionIsolation ==
    route = "search_documents" =>
        \A n \in 1..Len(output) : output[n].content \in AddedUnder(task_in.collection_name)

\* what the search does: it ranks the documents whose id begins with the
\* name, and the whole store when there is none
SearchRanksByIdPrefix ==
    route = "search_documents" =>
        LET named == {m \in 1..Len(document_store) :
                          StartsWith(document_store[m].id, task_in.collection_name)}
            ranked == IF named = {} THEN 1..Len(document_store) ELSE named
        IN  \A n \in 1..Len(output) :
                \E m \in ranked : output[n].content = document_store[m].doc

\* a search in a collection that holds a document, next to another collection
\* that holds a different one, returned the collection's own document
OwnDocumentReached ==
    /\ route = "search_documents"
    /\ output # <<>>
    /\ AddedUnder(task_in.collection_name) # {}
    /\ \E n \in 1..Len(uploaded) : uploaded[n].doc \notin AddedUnder(task_in.collection_name)
    /\ \A n \in 1..Len(output) : output[n].content \in AddedUnder(task_in.collection_name)

(***************************************************************************)
(* DialogueService.evaluate on every pair, the empty responses included.   *)
(***************************************************************************)
\* C29: DialogueService.evaluate returns a MetricsMap without raising for
\* every pair of a predicted and an expected output, an empty predicted
\* response, an empty expected response and both empty included, and its
\* length_ratio lies in [0, 1].
C29_DialogueEvaluateTotal ==
    task_in.service = "dialogue" =>
        \A n \in 1..Len(returned) :
            /\ IsMetrics(returned[n])
            /\ InUnitInterval(returned[n].length_ratio)

\* evaluate raises for the two empty responses, and only for them
RaisesOnBothEmpty ==
    task_in.service = "dialogue" =>
        \A n \in 1..Len(returned) :
            IF task_in.predicted.response = <<>> /\ task_in.expected.response = <<>>
            THEN returned[n] = Raises("ZeroDivisionError")
            ELSE /\ IsMetrics(returned[n])
                 /\ InUnitInterval(returned[n].length_ratio)

\* one empty response against a response that is not: the ratio is 0
OneEmptyReached ==
    /\ task_in.service = "dialogue"
    /\ task_in.predicted.response # <<>>
    /\ task_in.expected.response = <<>>
    /\ returned # <<>>
    /\ IsMetrics(returned[1])
    /\ returned[1].length_ratio = Zero

(***************************************************************************)
(* The run and batch routes of the five routers.  A route looks the test   *)
(* case up, calls its service, scores the output and persists one row; the *)
(* service call is the environment's: it returns an output or raises.      *)
(***************************************************************************)
Passage(text, place) == [content |-> text, score |-> One, index |-> place]

\* the stored test cases; the id of a case is its place
StoredCases ==
    <<[task_type |-> "classification", input_data |-> [text |-> <<"t">>],
       expected_output |-> ClassificationOutput(<<"a">>, Frac(1, 2), <<>>)],
      [task_type |-> "classification", input_data |-> [text |-> <<"t">>],
       expected_output |-> ClassificationOutput(<<"b">>, Frac(1, 2), <<>>)],
      [task_type |-> "classification", input_data |-> [labels |-> <<>>],
       expected_output |-> ClassificationOutput(<<"a">>, Frac(1, 2), <<>>)],
      [task_type |-> "correction", input_data |-> [text |-> <<"t">>],
       expected_output |-> CorrectionOutput(<<"a">>, <<>>, Frac(1, 2))],
      [task_type |-> "correction", input_data |-> [text |-> <<"t">>],
       expected_output |-> <<>>],
      [task_type |-> "dialogue", input_data |-> [user_input |-> <<"t">>],
       expected_output |-> DialogueOutput(<<"a">>, Frac(1, 2), TRUE)],
      [task_type |-> "dialogue", input_data |-> [user_input |-> <<"t">>],
       expected_output |-> DialogueOutput(<<"A", "b">>, Frac(1, 2), TRUE)],
      [task_type |-> "rag", input_data |-> [query |-> <<"t">>],
       expected_output |-> RAGOutput(<<"a">>, <<Passage(<<"a">>, 0)>>, Frac(1, 2))],
      [task_type |-> "rag", input_data |-> [query |-> <<"t">>],
       expected_output |-> RAGOutput(<<"A", "b">>, <<Passage(<<"a">>, 0)>>, Frac(1, 2))],
      [task_type |-> "agent", input_data |-> [task_goal |-> <<"t">>],
       expected_output |-> [expected_result |-> <<"a">>]],
      [task_type |-> "agent", input_data |-> [task_goal |-> <<"t">>],
       expected_output |-> AgentOutput(<<"a">>, <<SuccessRecord("calculator", ArgsValid)>>,
                                       Frac(1, 2))]>>

\* the ids a request may name: the stored ones and one that is not stored
CaseIds == 1..(Len(StoredCases) + 1)

RouteModels == {Gpt4, <<"m">>, <<>>}

\* the ways to ask for a run: the form route /run-test/ of every router, and
\* the JSON route /test-cases/{id}/run of the dialogue and agent routers
Ways(service) == IF service \in {"agent", "dialogue"} THEN {"form", "json"} ELSE {"form"}

\* what the service of a router may do when it is called
ServiceOutcomes(service) ==
    {Raises("provider error")} \cup
    CASE service = "classification" ->
             {ClassificationOutput(<<"a">>, Frac(1, 2), <<>>)}
      [] service = "correction" ->
             {CorrectionOutput(<<"a">>, <<>>, Frac(1, 2))}
      [] service = "dialogue" ->
             {DialogueOutput(<<>>, Frac(1, 2), FALSE), DialogueOutput(<<"a">>, Frac(1, 2), TRUE)}
      [] service = "rag" ->
             {RAGOutput(<<"a">>, <<Passage(<<"a">>, 0)>>, Frac(1, 2))}
      [] service = "agent" ->
             {AgentOutput(<<"a">>, <<>>, Frac(1, 2)),
              AgentOutput(<<"a">>, <<SuccessRecord("calculator", ArgsValid)>>, Frac(1, 2))}

\* the field the input schema of a router needs
RequiredInput ==
    [s \in Services |->
        CASE s = "classification" -> "text"
          [] s = "correction" -> "text"
          [] s = "dialogue" -> "user_input"
          [] s = "rag" -> "query"
          [] s = "agent" -> "task_goal"]

\* the expected output the route hands to evaluate
ExpectedOutput(service, expected_output) ==
    CASE service = "dialogue" -> DialogueOutput(<<>>, Frac(8, 10), TRUE)
      [] service = "agent" ->
             AgentOutput(Get(expected_output, "expected_result", <<>>), <<>>, Frac(8, 10))
      [] OTHER ->
             IF DOMAIN expected_output = {} THEN Raises("ValidationError")
             ELSE expected_output

\* service.evaluate of the router
Scores(service, result, expected) ==
    CASE service = "classification" -> evaluate_classification(result, expected)
      [] service = "correction" -> evaluate_correction(result, expected)
      [] service = "dialogue" -> evaluate_dialogue(result, expected)
      [] service = "rag" -> evaluate_rag(result, expected)
      [] service = "agent" -> evaluate_agent(result, expected)

HTTPException(status_code, detail) ==
    [type |-> "raised", status_code |-> status_code, detail |-> detail, rows |-> <<>>]

\* a variant of FailedRun that persists nothing
FailedRun_NotPersisted(id, name, message) ==
    [type |-> "raised", status_code |-> 500, detail |-> "run failed: " \o message,
     rows |-> <<>>]

\* the except branch of a run route: one failed row, then status 500
FailedRun(id, name, message) ==
    [type |-> "raised", status_code |-> 500, detail |-> "run failed: " \o message,
     rows |-> <<FailedRow(id, name, message)>>]

\* the try branch from the scoring on
ScoredRun(service, id, name, result, expected) ==
    IF expected.type = "raised" THEN FailedRun(id, name, expected.error)
    ELSE LET metrics == Scores(service, result, expected)
         IN  IF ~IsMetrics(metrics) THEN FailedRun(id, name, metrics.error)
             ELSE [type |-> "returned", status_code |-> 200,
                   body |-> [result |-> result, metrics |-> metrics],
                   rows |-> <<CompletedRow(id, name, result, metrics,
                                           metrics[PrimaryScore[service]])>>]

\* run_classification_test, run_correction_test, _run_dialogue_test_internal,
\* run_rag_test and _run_agent_test_internal, with what the service did
RunTest(service, id, name, outcome) ==
    IF id \notin 1..Len(StoredCases) THEN HTTPException(404, "test case not found")
    ELSE IF StoredCases[id].task_type # service
    THEN HTTPException(400, "test case type mismatch")
    ELSE IF RequiredInput[service] \notin DOMAIN StoredCases[id].input_data
    THEN FailedRun(id, name, "ValidationError")
    ELSE IF outcome.type = "raised" THEN FailedRun(id, name, outcome.error)
    ELSE ScoredRun(service, id, name, outcome,
                   ExpectedOutput(service, StoredCases[id].expected_output))
\* whether the route gets as far as calling its service
CallsService(service, id) ==
    /\ id \in 1..Len(StoredCases)
    /\ StoredCases[id].task_type = service
    /\ RequiredInput[service] \in DOMAIN StoredCases[id].input_data

ServiceCall(service, id, name, outcome) ==
    IF CallsService(service, id)
    THEN <<[call |-> service, test_case_id |-> id, model_name |-> name,
            outcome |-> outcome]>>
    ELSE <<>>

RouteVars == <<env, document_store, document_ids, uploaded, tools, strategy,
               agent_response, tool_calls, actions_taken, tool_runs>>

\* run_dialogue_test and run_agent_test refuse a body without a model name
\* before the run; the form routes go to the run at once
RunRequest(service, way, id, name, outcome) ==
    IF way = "json" /\ name = <<>> THEN HTTPException(400, "model_name missing")
    ELSE RunTest(service, id, name, outcome)

\* POST /run-test/ of a router, POST /test-cases/{id}/run of the dialogue and
\* agent routers
run_test(service, way, id, name) ==
    /\ pc = "idle"
    /\ route' = service
    /\ test_case_id' = id
    /\ model_name' = name
    /\ task_in' = [kind |-> "run", way |-> way]
    /\ \E outcome \in ServiceOutcomes(service) :
           LET run == RunRequest(service, way, id, name, outcome)
           IN  /\ db' = db \o run.rows
               /\ http_status' = run.status_code
               /\ error' = IF run.type = "raised" THEN run.detail ELSE ""
               /\ output' = IF run.type = "raised" THEN NoOutput ELSE run.body
               /\ provider_calls' = IF way = "json" /\ name = <<>> THEN <<>>
                                     ELSE ServiceCall(service, id, name, outcome)
    /\ pc' = "responded"
    /\ UNCHANGED <<RouteVars, idx, returned>>

BatchIds == {<<>>, <<1>>, <<2, 3>>, <<4, 5>>, <<7, 6>>, <<8, 12>>, <<10, 1>>}
BatchModels == {<<>>, <<(<<"m">>)>>, <<Gpt4, (<<"m">>)>>}

\* POST /batch-test/ of a router, up to its loops
run_batch_test(service, test_case_ids, model_names) ==
    /\ pc = "idle"
    /\ route' = service
    /\ task_in' = [kind |-> "batch", test_case_ids |-> test_case_ids,
                   model_names |-> model_names]
    /\ idx' = 0
    /\ returned' = <<>>
    /\ pc' = "batch"
    /\ UNCHANGED <<RouteVars, db, test_case_id, model_name, output, error, http_status,
                   provider_calls>>

\* what the batch route calls for a pair: the run route of the classification,
\* correction and RAG routers; run_agent_test and run_dialogue_test with the
\* model name where they take the request body, whose .get raises
BatchCall(service, id, name, outcome) ==
    IF service \in {"agent", "dialogue"}
    THEN [type |-> "raised", status_code |-> 0,
          detail |-> "AttributeError: 'str' object has no attribute 'get'", rows |-> <<>>]
    ELSE RunTest(service, id, name, outcome)

\* one pass of the inner loop of a batch route
BatchPair ==
    /\ pc = "batch"
    /\ idx < Len(task_in.test_case_ids) * Len(task_in.model_names)
    /\ LET id == task_in.test_case_ids[(idx \div Len(task_in.model_names)) + 1]
           name == task_in.model_names[(idx % Len(task_in.model_names)) + 1]
       IN  \E outcome \in ServiceOutcomes(route) :
               LET call == BatchCall(route, id, name, outcome)
               IN  /\ returned' = Append(returned,
                          IF call.type = "raised"
                          THEN [test_case_id |-> id, model_name |-> name,
                                status |-> "failed", error |-> call.detail]
                          ELSE [test_case_id |-> id, model_name |-> name,
                                status |-> "success", result |-> call.body])
                   /\ db' = db \o call.rows
                   /\ provider_calls' = provider_calls \o
                          (IF route \in {"agent", "dialogue"} THEN <<>>
                           ELSE ServiceCall(route, id, name, outcome))
    /\ idx' = idx + 1
    /\ UNCHANGED <<RouteVars, route, pc, test_case_id, model_name, output, error,
                   http_status, task_in>>

\* the loops are over: the batch route answers
BatchReturn ==
    /\ pc = "batch"
    /\ idx = Len(task_in.test_case_ids) * Len(task_in.model_names)
    /\ output' = [batch_results |-> returned]
    /\ http_status' = 200
    /\ pc' = "responded"
    /\ UNCHANGED <<RouteVars, route, db, test_case_id, model_name, error, idx,
                   provider_calls, returned, task_in>>

RouteNext ==
    \/ \E service \in Services, id \in CaseIds, name \in RouteModels :
           \E way \in Ways(service) : run_test(service, way, id, name)
    \/ \E service \in Services, test_case_ids \in BatchIds, model_names \in BatchModels :
           run_batch_test(service, test_case_ids, model_names)
    \/ BatchPair
    \/ BatchReturn

RouteSpec == StoreInit /\ [][RouteNext]_vars

\* a single run has answered
RunAnswered == pc = "responded" /\ task_in.kind = "run"

\* the test case of the request is stored and of the router's type
Matching == test_case_id \in 1..Len(StoredCases) /\ StoredCases[test_case_id].task_type = route

\* the JSON route refused the request: its body names no model
Refused == task_in.way = "json" /\ model_name = <<>>

\* the service was called and returned an output
Executed == provider_calls # <<>> /\ provider_calls[1].outcome.type # "raised"

\* the scoring of the output fails: the stored expectation does not fit the
\* output schema, or the dialogue scorer divides by the length 0
ScoringFails ==
    \/ route \in {"classification", "correction", "rag"}
          /\ DOMAIN StoredCases[test_case_id].expected_output = {}
    \/ route = "dialogue" /\ provider_calls[1].outcome.response = <<>>

\* C26: on each of the five routes a run of a stored test case of the
\* router's type persists exactly one TestResult: 'completed' with the
\* output and the primary score of the route when execution and scoring both
\* succeed, otherwise 'failed' with the error message and no score; a run
\* that names a missing test case or one of another type persists nothing
\* (nor does a request the JSON route refuses for want of a model name, which
\* runs nothing).
C26_RunPersistsOneRow ==
    RunAnswered =>
        IF ~Matching \/ Refused THEN db = <<>> /\ http_status \in {400, 404}
        ELSE /\ Len(db) = 1
             /\ db[1].test_case_id = test_case_id
             /\ db[1].model_name = model_name
             /\ IF Executed /\ ~ScoringFails
                THEN /\ db[1].status = "completed"
                     /\ db[1].actual_output = provider_calls[1].outcome
                     /\ IsMetrics(db[1].metrics)
                     /\ db[1].score = db[1].metrics[PrimaryScore[route]]
                     /\ db[1].error_message = PyNone
                     /\ http_status = 200
                ELSE /\ db[1].status = "failed"
                     /\ db[1].score = PyNone
                     /\ error = "run failed: " \o db[1].error_message
                     /\ db[1].error_message # ""
                     /\ http_status = 500

\* the service returned an output, the scoring failed, and one failed row was
\* persisted
C26_Witness ==
    /\ RunAnswered
    /\ Matching
    /\ ~Refused
    /\ Executed
    /\ ScoringFails
    /\ Len(db) = 1
    /\ db[1].status = "failed"

CompletedRunReached ==
    /\ RunAnswered
    /\ route = "agent"
    /\ Len(db) = 1
    /\ db[1].status = "completed"
    /\ db[1].score = One

(***************************************************************************)
(* What the scorer of a run is given as the expectation.                   *)
(***************************************************************************)
\* the output of a completed run and the stored expectation of its test case
Predicted == db[1].actual_output
Stored == StoredCases[test_case_id].expected_output

RunCompleted == RunAnswered /\ Len(db) = 1 /\ db[1].status = "completed"

\* the output equals the stored expectation: its text and its list
EqualsStored ==
    CASE route = "dialogue" -> Predicted.response = Get(Stored, "response", PyNone)
      [] route = "rag" ->
             /\ Predicted.answer = Stored.answer
             /\ Predicted.retrieved_documents = Stored.retrieved_documents
      [] route = "agent" ->
             IF "expected_result" \in DOMAIN Stored
             THEN Predicted.result = Stored.expected_result
             ELSE /\ Predicted.result = Stored.result
                  /\ Predicted.actions_taken = Stored.actions_taken

\* the expected items of the overlap metric of the route are stored and not
\* empty
StoresOverlapItems ==
    \/ route = "rag" /\ Stored.retrieved_documents # <<>>
    \/ route = "agent" /\ "actions_taken" \in DOMAIN Stored /\ Stored.actions_taken # <<>>

OverlapOf(service) == IF service = "rag" THEN "retrieval_quality" ELSE "tool_usage_score"

\* C27: on the dialogue, agent and RAG routes the scorer is handed the stored
\* expected_output of the test case: a run whose predicted output equals the
\* stored expectation is persisted with the primary score 1.0 and full
\* overlap, and a primary score of 1.0 is given only to an output whose text
\* is the stored one, so that test cases differing in the stored text alone
\* are scored differently.
C27_ScoredAgainstStored ==
    RunCompleted /\ route \in {"dialogue", "agent", "rag"} =>
        /\ EqualsStored =>
               /\ db[1].score = One
               /\ StoresOverlapItems => db[1].metrics[OverlapOf(route)] = One
        /\ db[1].score = One =>
               \/ route = "dialogue"
                     /\ lower(Predicted.response) = lower(Get(Stored, "response", <<>>))
               \/ route = "rag" /\ lower(Predicted.answer) = lower(Stored.answer)
               \/ route = "agent"
                     /\ lower(Predicted.result)
                            = lower(Get(Stored, "expected_result", Get(Stored, "result", <<>>)))

\* the RAG route does hand the stored expectation over
RagScoredAgainstStored ==
    RunCompleted /\ route = "rag" =>
        /\ db[1].metrics = evaluate_rag(Predicted, Stored)
        /\ EqualsStored => db[1].score = One /\ db[1].metrics.retrieval_quality = One
        /\ ~EqualsStored => db[1].score # One

\* the dialogue route scores against the empty response, the agent route
\* against the expected_result field and no actions
DialogueAndAgentExpectation ==
    /\ RunCompleted /\ route = "dialogue" =>
           /\ db[1].metrics.expected_length = 0
           /\ db[1].score = Zero
    /\ RunCompleted /\ route = "agent" =>
           /\ db[1].metrics.expected_actions = 0
           /\ db[1].metrics.tool_usage_score = Zero
           /\ "expected_result" \notin DOMAIN Stored => db[1].score = Zero

RagEqualsStoredReached ==
    /\ RunCompleted
    /\ route = "rag"
    /\ EqualsStored
    /\ db[1].score = One

RagDiffersReached ==
    /\ RunCompleted
    /\ route = "rag"
    /\ ~EqualsStored
    /\ db[1].score # One

(***************************************************************************)
(* The batch routes.                                                       *)
(***************************************************************************)
BatchAnswered == pc = "responded" /\ task_in.kind = "batch"

\* entry number of the pair (i-th id, j-th model): ids outer, models inner
EntryOf(i, j) == (i - 1) * Len(task_in.model_names) + j

\* the entry is what a single run of its pair answers for something its
\* service may do: success with the run's body, or failed with the run's error
AsSingleRun(entry) ==
    \E outcome \in ServiceOutcomes(route) :
        LET run == RunTest(route, entry.test_case_id, entry.model_name, outcome)
        IN  IF run.type = "raised"
            THEN entry.status = "failed" /\ entry.error = run.detail
            ELSE entry.status = "success" /\ entry.result = run.body

\* one entry for each pair, in nested order
OneEntryPerPair ==
    BatchAnswered =>
        /\ Len(output.batch_results)
               = Len(task_in.test_case_ids) * Len(task_in.model_names)
        /\ \A i \in 1..Len(task_in.test_case_ids), j \in 1..Len(task_in.model_names) :
               /\ output.batch_results[EntryOf(i, j)].test_case_id = task_in.test_case_ids[i]
               /\ output.batch_results[EntryOf(i, j)].model_name = task_in.model_names[j]

\* C30: on each of the five routes the batch answer has exactly |T| x |M|
\* entries in nested order, test case ids outer and models inner; an entry is
\* 'success' exactly when the single run of its pair would succeed and
\* 'failed' with that run's error otherwise; a failing pair does not keep the
\* pairs after it from being run.
C30_BatchAsSingleRuns ==
    /\ OneEntryPerPair
    /\ BatchAnswered =>
           \A n \in 1..Len(output.batch_results) : AsSingleRun(output.batch_results[n])

\* the classification, correction and RAG batches are made of single runs,
\* each persisting what the single run persists
DirectBatches ==
    BatchAnswered /\ route \in {"classification", "correction", "rag"} =>
        /\ \A n \in 1..Len(output.batch_results) : AsSingleRun(output.batch_results[n])
        /\ Len(db) = Cardinality({n \in 1..Len(output.batch_results) :
                          CallsService(route, output.batch_results[n].test_case_id)
                          \/ (output.batch_results[n].test_case_id \in 1..Len(StoredCases)
                              /\ StoredCases[output.batch_results[n].test_case_id].task_type
                                     = route)})

\* the agent and dialogue batches fail every pair and run nothing
WrappedBatches ==
    BatchAnswered /\ route \in {"agent", "dialogue"} =>
        /\ db = <<>>
        /\ provider_calls = <<>>
        /\ \A n \in 1..Len(output.batch_results) :
               output.batch_results[n].status = "failed"

\* a batch of two test cases and two models whose first pair failed and whose
\* last pair succeeded
FailureThenSuccessReached ==
    /\ BatchAnswered
    /\ Len(output.batch_results) = 4
    /\ output.batch_results[1].status = "failed"
    /\ output.batch_results[4].status = "success"

====
